---- MODULE Spec2Model ----
(***************************************************************************)
(* Buyer/listing taste matching of taste-to-lead: listing vector           *)
(* derivation, buyer profile aggregation, match scoring, and the lead /    *)
(* notification decision of POST /api/buyer/swipe, together with the       *)
(* legacy session taste profile (POST /api/swipe, GET /api/properties,     *)
(* GET /api/user/stats).                                                   *)
(*                                                                         *)
(* Weights of listing vectors are real numbers in the program; here they   *)
(* are fixed-point integers in hundredths (One = 1.00).                    *)
(* An optional value (null / undefined / a value) is a sequence of length  *)
(* 0 or 1.                                                                 *)
(***************************************************************************)
EXTENDS Integers, Sequences, FiniteSets, TLC

VARIABLES
    properties,     \* properties table: listing id -> stored record
    buyers,         \* buyers table: set of buyer ids
    swipeEvents,    \* swipe_events table, in insertion order
    leads,          \* leads table, in insertion order
    notifications,  \* notifications table, in insertion order
    resp,           \* response of the last completed request
    reqs,           \* in-flight POST /api/buyer/swipe requests (concurrent runs)
    started,        \* number of requests accepted so far (concurrent runs)
    session,        \* express-session of the legacy consumer path
    swipes,         \* swipes table of the legacy path, in insertion order
    vecResult,      \* last result of getListingVector on listing 1
    caches,         \* CacheStorage of the service worker: cache name -> url -> response
    answer,         \* what the service worker did with the last fetch event
    importJobRuntime,   \* the in-memory map of import job status
    importJobs,     \* import_jobs table
    jobs,           \* position of each import job's background task
    wizardData,     \* OnboardingWizard: `data`, the answers given so far,
                    \* or None while the wizard is not mounted
    filters,        \* Consumer: the filters in force, null before onboarding
    card,           \* Consumer: the listing shown last, with its match score
    verificationCodes, \* rows of the verification_codes table, by id
    emailVerified,  \* session.emailVerified of each stored session
    verifyReqs,     \* the POST /api/auth/verify-code requests and their position
    agents,         \* emails of the rows of the agents table
    now,            \* the server's clock
    ready,          \* dbReadiness: ready
    lastError,      \* dbReadiness: lastError, None for null
    database,       \* the database: reachable or not, and its tables
    checks          \* position of each running checkDbReadiness call

\* tables, sessions and requests of the swipe, profile and listing routes
server == <<properties, buyers, swipeEvents, leads, notifications, resp,
            reqs, started, session, swipes, vecResult>>

\* state of the service worker
worker == <<caches, answer>>

\* state of the portfolio imports
imports == <<importJobRuntime, importJobs, jobs>>

\* state of the consumer page
client == <<wizardData, filters, card>>

\* everything the swipe, profile and listing routes leave alone
\* state of the email verification and signup routes
auth == <<verificationCodes, emailVerified, verifyReqs, agents, now>>

\* state of the DB readiness monitor
monitor == <<ready, lastError, database, checks>>

apart == <<worker, imports, client, auth, monitor>>

vars == <<server, apart>>

----------------------------------------------------------------------------
(* Bounds *)

MaxEvents == 2          \* swipe events recorded in a sequential run
MaxRequests == 3        \* requests accepted in a concurrent run
MaxSwipes == 2          \* legacy swipes recorded in a session

----------------------------------------------------------------------------
(* Archetype catalog *)

VIBES == <<"Purist", "Industrialist", "Monarch", "Futurist",
           "Naturalist", "Curator", "Classicist", "Nomad">>

VibeSet == {VIBES[i] : i \in 1..Len(VIBES)}

One == 100

None == <<>>
Some(x) == <<x>>

RECURSIVE SumOver(_, _)
SumOver(f, S) ==
    IF S = {} THEN 0
    ELSE LET x == CHOOSE y \in S : TRUE IN f[x] + SumOver(f, S \ {x})

----------------------------------------------------------------------------
(* Listing Vector Deriver *)

\* vibeTop[0]?.vibe when vibeTop is a non-empty array, else null
FromTop(property) ==
    IF Len(property.vibeTop) > 0 THEN Some(property.vibeTop[1].vibe) ELSE None

\* property is an optional record (undefined when the listing is gone)
getTopVibeFromProperty(property) ==
    IF property = None THEN None
    ELSE LET p == property[1]
             fromTop == FromTop(p)
         IN IF fromTop # None /\ fromTop[1] # "" /\ fromTop[1] \in VibeSet
                THEN fromTop
            ELSE IF p.vibeTag # "" /\ p.vibeTag \in VibeSet
                THEN Some(p.vibeTag)
            ELSE None

OneHot(top) == [v \in VibeSet |-> IF v = top THEN One ELSE 0]

\* A stored vibeVector is returned as it is when it is an object (a JSON
\* scalar is not modelled: the stored value is null or an object).
getListingVector(property) ==
    IF property # None /\ property[1].vibeVector # None
        THEN property[1].vibeVector
    ELSE LET top == getTopVibeFromProperty(property)
         IN IF top = None THEN None ELSE Some(OneHot(top[1]))

----------------------------------------------------------------------------
(* Profile Aggregator (shared/tasteAlgorithm) *)

BUYER_ACTIONS == {"like", "nope", "save", "skip"}

ACTION_WEIGHTS == [save |-> 3, like |-> 1, skip |-> 0, nope |-> 0]

\* accumulated weight of archetype v over a list of {action, vibe} events;
\* events whose listing has no top vibe contribute nothing
RECURSIVE Accumulate(_, _)
Accumulate(events, v) ==
    IF events = <<>> THEN 0
    ELSE (IF Head(events).vibe = Some(v)
             THEN ACTION_WEIGHTS[Head(events).action] ELSE 0)
         + Accumulate(Tail(events), v)

\* i ranks before j: larger weight first, enumeration order among equals
RanksBefore(vector, i, j) ==
    \/ vector[VIBES[i]] > vector[VIBES[j]]
    \/ vector[VIBES[i]] = vector[VIBES[j]] /\ i < j

TopVibesOf(vector) ==
    LET pos == {i \in 1..Len(VIBES) : vector[VIBES[i]] > 0}
        rank(i) == 1 + Cardinality({j \in pos : RanksBefore(vector, j, i)})
    IN [k \in 1..Cardinality(pos) |->
            LET i == CHOOSE x \in pos : rank(x) = k
            IN [vibe |-> VIBES[i], score |-> vector[VIBES[i]]]]

computeBuyerVibeVector(events) ==
    LET vector == [v \in VibeSet |-> Accumulate(events, v)]
    IN [vector |-> vector, topVibes |-> TopVibesOf(vector)]

----------------------------------------------------------------------------
(* Match Scorer (shared/tasteAlgorithm) *)

Clamp(x, lo, hi) == IF x < lo THEN lo ELSE IF x > hi THEN hi ELSE x

\* round(n / d) for n >= 0, d > 0 (Math.round: half rounds up)
RoundDiv(n, d) == (2 * n + d) \div (2 * d)

\* overlap of the buyer vector with the listing vector, as a share of the
\* buyer's accumulated weight, in percent
computeVectorMatchScore(buyerVector, listingVector) ==
    IF listingVector = None THEN 0
    ELSE LET lv == listingVector[1]
             keys == VibeSet \cap DOMAIN lv
             total == SumOver(buyerVector, VibeSet)
             dot == SumOver([v \in keys |-> buyerVector[v] * lv[v]], keys)
         IN IF total = 0 \/ dot <= 0 THEN 0
            ELSE Clamp(RoundDiv(dot, total), 0, 100)

----------------------------------------------------------------------------
(* Decision Policy: talk track and avoid list *)

\* per-archetype copy: the texts are opaque, only their archetype matters
VIBE_DEFINITIONS ==
    [v \in VibeSet |-> [copyHook |-> <<"copyHook", v>>,
                        keywords |-> <<"keywords", v>>,
                        forbiddenChanges |-> <<[avoidFor |-> v]>>]]

\* VIBE_DEFINITIONS[topBuyerVibe], null without a top vibe or an entry
VibeDefOf(topBuyerVibe) ==
    IF topBuyerVibe # None /\ topBuyerVibe[1] \in DOMAIN VIBE_DEFINITIONS
        THEN Some(VIBE_DEFINITIONS[topBuyerVibe[1]])
    ELSE None

GENERIC_TALK_TRACK == [names |-> None, pitch |-> None, feel |-> None]

\* no fallback: a missing top vibe is printed into the archetype template
TalkTrackOf_NoFallback(topBuyerVibe) ==
    LET top == IF topBuyerVibe = None THEN "null" ELSE topBuyerVibe[1]
    IN [names |-> Some(top), pitch |-> Some(<<"copyHook", top>>),
        feel |-> Some(<<"keywords", top>>)]

TalkTrackOf(topBuyerVibe) ==
    LET vibeDef == VibeDefOf(topBuyerVibe)
    IN IF topBuyerVibe # None /\ vibeDef # None
           THEN [names |-> topBuyerVibe,
                 pitch |-> Some(vibeDef[1].copyHook),
                 feel |-> Some(vibeDef[1].keywords)]
       ELSE GENERIC_TALK_TRACK

AvoidListOf(topBuyerVibe) ==
    LET vibeDef == VibeDefOf(topBuyerVibe)
    IN IF topBuyerVibe # None /\ vibeDef # None
           THEN vibeDef[1].forbiddenChanges
       ELSE <<>>

----------------------------------------------------------------------------
(* POST /api/buyer/swipe: the computation between the storage calls *)

LEAD_THRESHOLD == 85
HOT_THRESHOLD == 95
MAX_DWELL_MS == 3600000

\* the schema without the upper bound of dwellMs
buyerSwipeSchema_NoDwellMax(body) ==
    /\ body.buyerId # ""
    /\ body.listingId > 0
    /\ body.action \in BUYER_ACTIONS
    /\ body.dwellMsFraction = 0
    /\ body.dwellMs >= 0

\* a body's dwell time is dwellMs + dwellMsFraction / 1000 milliseconds
buyerSwipeSchema(body) ==
    /\ body.buyerId # ""
    /\ body.listingId > 0
    /\ body.action \in BUYER_ACTIONS
    /\ body.dwellMsFraction = 0
    /\ body.dwellMs >= 0 /\ body.dwellMs <= MAX_DWELL_MS

\* storage.getProperty / listingMap.get: the stored record or undefined
PropertyOf(props, id) ==
    IF id \in DOMAIN props THEN Some(props[id]) ELSE None

\* a read that misses the row inserted last
getSwipeEventsByBuyer_BeforeInsert(evs, buyerId) ==
    SelectSeq(SubSeq(evs, 1, Len(evs) - 1), LAMBDA e : e.buyerId = buyerId)

\* storage.getSwipeEventsByBuyer
getSwipeEventsByBuyer(evs, buyerId) ==
    SelectSeq(evs, LAMBDA e : e.buyerId = buyerId)

\* events.map(event => ({action, vibe: top vibe of the event's listing}))
BuyerVibeEvents(events, props) ==
    [i \in 1..Len(events) |->
        [action |-> events[i].action,
         vibe |-> getTopVibeFromProperty(PropertyOf(props, events[i].listingId))]]

ListingTopVibes(listing) ==
    IF Len(listing.vibeTop) > 0 THEN listing.vibeTop
    ELSE LET top == getTopVibeFromProperty(Some(listing))
         IN IF top # None THEN <<[vibe |-> top[1], score |-> One]>> ELSE <<>>

FirstVibe(topVibes) ==
    IF Len(topVibes) > 0 /\ topVibes[1].vibe # ""
        THEN Some(topVibes[1].vibe) ELSE None

LeadCondition(action, matchScore) ==
    action = "save" \/ matchScore >= LEAD_THRESHOLD

\* strict comparison, as on the legacy path
IsHot_Strict(matchScore) == matchScore > HOT_THRESHOLD

IsHot(matchScore) == matchScore >= HOT_THRESHOLD

\* the existence check dropped: every firing request inserts
ShouldCreateLead_NoDedup(fires, existingLead) == fires

\* if (condition) { existingLead = ...; if (!existingLead) { create } }
ShouldCreateLead(fires, existingLead) == fires /\ ~existingLead

\* storage.getLeadByBuyerAndProperty
getLeadByBuyerAndProperty(ls, buyerId, propertyId) ==
    \E i \in 1..Len(ls) :
        ls[i].buyerId = Some(buyerId) /\ ls[i].propertyId = propertyId

\* everything the handler derives from the listing and the events read back
Evaluate(body, listingId, listing, events, props) ==
    LET buyerProfile == computeBuyerVibeVector(BuyerVibeEvents(events, props))
        listingVector == getListingVector(Some(listing))
        matchScore == computeVectorMatchScore(buyerProfile.vector, listingVector)
        listingTopVibes == ListingTopVibes(listing)
        topBuyerVibe == FirstVibe(buyerProfile.topVibes)
    IN [buyerId |-> body.buyerId,
        listingId |-> listingId,
        action |-> body.action,
        agentId |-> listing.agentId,
        buyerVector |-> buyerProfile.vector,
        buyerTopVibes |-> buyerProfile.topVibes,
        listingVector |-> listingVector,
        listingTopVibes |-> listingTopVibes,
        matchScore |-> matchScore,
        topBuyerVibe |-> topBuyerVibe,
        topListingVibe |-> FirstVibe(listingTopVibes)]

LeadRecord(ev) ==
    [propertyId |-> ev.listingId,
     name |-> "Anonymous Buyer",
     agentId |-> ev.agentId,
     buyerId |-> Some(ev.buyerId),
     buyerVector |-> ev.buyerVector,
     listingVector |-> ev.listingVector,
     topBuyerVibes |-> ev.buyerTopVibes,
     topListingVibes |-> ev.listingTopVibes,
     matchScore |-> ev.matchScore,
     talkTrack |-> TalkTrackOf(ev.topBuyerVibe),
     avoidList |-> AvoidListOf(ev.topBuyerVibe)]

NotificationPriority(hotLead) == IF hotLead THEN "critical" ELSE "high"

NotificationRecord(ev) ==
    [recipientId |-> ev.agentId,
     type |-> "match",
     propertyId |-> ev.listingId,
     buyerId |-> ev.buyerId,
     matchScore |-> ev.matchScore,
     topBuyerVibe |-> ev.topBuyerVibe,
     topListingVibe |-> ev.topListingVibe,
     priority |-> NotificationPriority(IsHot(ev.matchScore)),
     readStatus |-> FALSE]

\* an event that drops the dwell time
SwipeEventRecord_NoDwell(body) ==
    [buyerId |-> body.buyerId, listingId |-> body.listingId,
     action |-> body.action, dwellMs |-> 0]

SwipeEventRecord(body) ==
    [buyerId |-> body.buyerId, listingId |-> body.listingId,
     action |-> body.action, dwellMs |-> body.dwellMs]

\* responses; body fields a response does not carry hold their defaults
NoResp ==
    [route |-> "none", status |-> 0, buyerId |-> "", listingId |-> 0,
     action |-> "", matchScore |-> 0, buyerTopVibes |-> <<>>,
     listingTopVibes |-> <<>>, leadCreated |-> FALSE, hotLead |-> FALSE,
     hadLead |-> FALSE, vector |-> None,
     scored |-> FALSE, tasteScores |-> <<>>, vibePercentages |-> <<>>,
     topVibe |-> None, totalSwipes |-> 0, notified |-> None, emailed |-> FALSE,
     job |-> None, details |-> None]

\* res.status(status).json({message})
ErrorResp(route, status) ==
    [NoResp EXCEPT !.route = route, !.status = status]

\* res.json({matchScore, buyerTopVibes, listingTopVibes, leadCreated, hotLead});
\* hadLead records what getLeadByBuyerAndProperty answered (not sent)
OkResp(ev, leadCreated, hadLead) ==
    [NoResp EXCEPT
        !.route = "buyer/swipe", !.status = 200, !.buyerId = ev.buyerId,
        !.listingId = ev.listingId, !.action = ev.action,
        !.matchScore = ev.matchScore, !.buyerTopVibes = ev.buyerTopVibes,
        !.listingTopVibes = ev.listingTopVibes, !.leadCreated = leadCreated,
        !.hotLead = IsHot(ev.matchScore), !.hadLead = hadLead]

----------------------------------------------------------------------------
(* Stored listings *)

Listing(tag, top, vec) ==
    [vibeTag |-> tag, vibeTop |-> top, vibeVector |-> vec,
     agentId |-> "agent-1", organizationId |-> 1]

Tagged(tag) == Listing(tag, <<>>, None)

\* a listing whose classifier breakdown puts weight w on Monarch
Weighted(w) ==
    Listing("Monarch", <<>>, Some([v \in {"Monarch"} |-> w]))

\* a listing with a ranked top-vibes list and the matching vector
Ranked ==
    Listing("Unclassified",
            <<[vibe |-> "Naturalist", score |-> 90],
              [vibe |-> "Purist", score |-> 40]>>,
            Some([v \in {"Naturalist", "Purist"} |->
                     IF v = "Naturalist" THEN 90 ELSE 40]))

ListingIds == {1, 2}
MissingListingId == Cardinality(ListingIds) + 1

Catalogs ==
    { <<Tagged("Naturalist"), Tagged("Unclassified")>>,
      <<Ranked, Tagged("Purist")>>,
      <<Weighted(LEAD_THRESHOLD), Weighted(HOT_THRESHOLD)>>,
      <<Weighted(LEAD_THRESHOLD - 1), Weighted(HOT_THRESHOLD - 1)>> }

ProfileCatalogs ==
    { <<Tagged("Monarch"), Tagged("Purist")>>,
      <<Ranked, Tagged("Unclassified")>> }

Buyers == {"b1", "b2"}

Body(b, l, a, d) ==
    [buyerId |-> b, listingId |-> l, action |-> a, dwellMs |-> d,
     dwellMsFraction |-> 0]

ValidBodies == {Body(b, l, a, 0) : b \in Buyers, l \in ListingIds, a \in BUYER_ACTIONS}

SwipeBodies ==
    ValidBodies \cup
    { Body("", 1, "like", 0), Body("b1", 0, "like", 0),
      Body("b1", 1, "superlike", 0), Body("b1", 1, "like", -1),
      Body("b1", 1, "like", MAX_DWELL_MS + 1),
      [Body("b1", 1, "like", 1) EXCEPT !.dwellMsFraction = 500],
      Body("b1", MissingListingId, "save", 0) }

----------------------------------------------------------------------------
(* Initial state: empty tables, no session, no request in flight *)

Slots == {1, 2}

IdleReq == [pc |-> "idle", body |-> None, listing |-> None,
            events |-> <<>>, ev |-> None]

\* the caches of the service worker, in the order caches.match searches them
CACHE_NAME == "luxeestates-v1"

IMAGE_CACHE == "luxeestates-images-v1"

FONT_CACHE == "luxeestates-fonts-v1"

\* a cache left by an earlier version of the worker
OLD_CACHE == "luxeestates-v0"

CacheNames == <<OLD_CACHE, CACHE_NAME, IMAGE_CACHE, FONT_CACHE>>

\* no fetch event handled yet
NoAnswer ==
    [url |-> "", responded |-> FALSE, fetched |-> FALSE, source |-> "",
     status |-> 0]

InitWorkerIdle ==
    /\ caches = [i \in DOMAIN CacheNames |-> <<>>]
    /\ answer = NoAnswer

JobIds == {1, 2}

\* no import job accepted yet
IdleJob == [pc |-> "none", kind |-> "", calls |-> 0]

InitImportsIdle ==
    /\ importJobRuntime = [j \in JobIds |-> None]
    /\ importJobs = [j \in JobIds |-> None]
    /\ jobs = [j \in JobIds |-> IdleJob]

\* useState of OnboardingWizard
InitialData ==
    [budgetMin |-> 100000, budgetMax |-> 10000000, bedrooms |-> "2",
     vibe |-> "all", mustHaves |-> <<>>, dealBreakers |-> <<>>]

\* the page starts without filters, so with the wizard
InitClientIdle ==
    /\ wizardData = Some(InitialData)
    /\ filters = None
    /\ card = None

VerifyIds == {1, 2}

Sessions == {"s1", "s2"}

IdleVerify ==
    [pc |-> "none", session |-> "", email |-> "", code |-> "",
     records |-> <<>>, status |-> 0]

\* no code was sent, no session has verified an email, the clock is at 0
InitAuthIdle ==
    /\ verificationCodes = <<>>
    /\ emailVerified = [s \in Sessions |-> None]
    /\ verifyReqs = [v \in VerifyIds |-> IdleVerify]
    /\ agents = {}
    /\ now = 0

REQUIRED_TABLES ==
    <<"organizations", "agents", "properties", "leads", "notifications">>

CheckIds == {"monitor", "seed"}

\* no call in progress; returned is what the last call resolved to
IdleCheck == [pc |-> "none", returned |-> None]

\* a reachable database with every required table
DatabaseUp == [up |-> TRUE, tables |-> {REQUIRED_TABLES[i] : i \in DOMAIN REQUIRED_TABLES}]

\* the state in which /api requests reach their handlers: the last check
\* found the database ready
InitMonitorReady ==
    /\ ready = TRUE
    /\ lastError = None
    /\ database = DatabaseUp
    /\ checks = [c \in CheckIds |-> IdleCheck]

InitApart ==
    /\ InitWorkerIdle
    /\ InitImportsIdle
    /\ InitClientIdle
    /\ InitAuthIdle
    /\ InitMonitorReady

\* the server before its first request
InitServer ==
    /\ buyers = {}
    /\ swipeEvents = <<>>
    /\ leads = <<>>
    /\ notifications = <<>>
    /\ resp = NoResp
    /\ reqs = [r \in Slots |-> IdleReq]
    /\ started = 0
    /\ session = [tasteProfile |-> None, agentId |-> None]
    /\ swipes = <<>>
    /\ vecResult = None

InitRest ==
    /\ InitServer
    /\ InitApart

Init ==
    /\ properties \in Catalogs
    /\ InitRest

----------------------------------------------------------------------------
(* POST /api/buyer/swipe, one request at a time *)

BuyerSwipe(body) ==
    /\ IF ~buyerSwipeSchema(body)
          THEN /\ resp' = ErrorResp("buyer/swipe", 400)
               /\ UNCHANGED <<buyers, swipeEvents, leads, notifications>>
       ELSE IF PropertyOf(properties, body.listingId) = None
          THEN /\ resp' = ErrorResp("buyer/swipe", 404)
               /\ UNCHANGED <<buyers, swipeEvents, leads, notifications>>
       ELSE
          LET listing == properties[body.listingId]
              evs == Append(swipeEvents, SwipeEventRecord(body))
              events == getSwipeEventsByBuyer(evs, body.buyerId)
              ev == Evaluate(body, body.listingId, listing, events, properties)
              fires == LeadCondition(body.action, ev.matchScore)
              existingLead ==
                  getLeadByBuyerAndProperty(leads, body.buyerId, body.listingId)
              create == ShouldCreateLead(fires, existingLead)
          IN /\ Len(swipeEvents) < MaxEvents
             /\ buyers' = buyers \cup {body.buyerId}
             /\ swipeEvents' = evs
             /\ leads' = IF create THEN Append(leads, LeadRecord(ev)) ELSE leads
             /\ notifications' =
                    IF create THEN Append(notifications, NotificationRecord(ev))
                    ELSE notifications
             /\ resp' = OkResp(ev, create, fires /\ existingLead)
    /\ UNCHANGED <<properties, reqs, started, session, swipes, vecResult, apart>>

\* GET /api/buyer/profile
GetBuyerProfile(buyerId) ==
    /\ IF buyerId = ""
          THEN resp' = ErrorResp("buyer/profile", 400)
       ELSE
          LET events == getSwipeEventsByBuyer(swipeEvents, buyerId)
              profile == computeBuyerVibeVector(BuyerVibeEvents(events, properties))
          IN resp' = [NoResp EXCEPT !.route = "buyer/profile", !.status = 200,
                                    !.buyerId = buyerId,
                                    !.buyerTopVibes = profile.topVibes,
                                    !.vector = Some(profile.vector)]
    /\ UNCHANGED <<properties, buyers, swipeEvents, leads, notifications,
                   reqs, started, session, swipes, vecResult, apart>>

Next == \E body \in SwipeBodies : BuyerSwipe(body)

Spec == Init /\ [][Next]_vars

(* Profile reads between swipes *)

InitProfile ==
    /\ properties \in ProfileCatalogs
    /\ InitRest

NextProfile ==
    \/ \E body \in SwipeBodies : BuyerSwipe(body)
    \/ \E buyerId \in Buyers \cup {""} : GetBuyerProfile(buyerId)

SpecProfile == InitProfile /\ [][NextProfile]_vars

----------------------------------------------------------------------------
(* POST /api/buyer/swipe, requests in flight together: every awaited       *)
(* storage call is one step, and the steps of two requests interleave.     *)
(* The leads table has no unique constraint on (buyer_id, property_id).    *)

ConcCatalog == <<Tagged("Monarch"), Weighted(HOT_THRESHOLD)>>

ConcBodies ==
    {Body(b, 2, a, 0) : b \in Buyers, a \in {"like", "save"}}
    \cup {Body("b1", 1, "nope", 0),
          Body("b1", MissingListingId, "save", 0), Body("", 1, "like", 0)}

InitConc ==
    /\ properties = ConcCatalog
    /\ InitRest

ConcFrame == UNCHANGED <<properties, session, swipes, vecResult, apart>>

Goto(r, pc) == reqs' = [reqs EXCEPT ![r].pc = pc]

Finish(r, response) ==
    /\ reqs' = [reqs EXCEPT ![r] = IdleReq]
    /\ resp' = response

\* buyerSwipeSchema.parse, then the call of storage.getProperty
CStart(r, body) ==
    /\ reqs[r].pc = "idle"
    /\ IF ~buyerSwipeSchema(body)
          THEN /\ resp' = ErrorResp("buyer/swipe", 400)
               /\ UNCHANGED <<reqs, started>>
       ELSE /\ started < MaxRequests
            /\ started' = started + 1
            /\ reqs' = [reqs EXCEPT ![r] = [IdleReq EXCEPT !.pc = "getProperty",
                                                           !.body = Some(body)]]
            /\ UNCHANGED resp
    /\ UNCHANGED <<buyers, swipeEvents, leads, notifications>>
    /\ ConcFrame

CGetProperty(r) ==
    /\ reqs[r].pc = "getProperty"
    /\ LET listing == PropertyOf(properties, reqs[r].body[1].listingId)
       IN IF listing = None
             THEN Finish(r, ErrorResp("buyer/swipe", 404))
          ELSE /\ reqs' = [reqs EXCEPT ![r].pc = "getBuyer", ![r].listing = listing]
               /\ UNCHANGED resp
    /\ UNCHANGED <<buyers, swipeEvents, leads, notifications, started>>
    /\ ConcFrame

CGetBuyer(r) ==
    /\ reqs[r].pc = "getBuyer"
    /\ Goto(r, IF reqs[r].body[1].buyerId \in buyers
                  THEN "createSwipeEvent" ELSE "createBuyer")
    /\ UNCHANGED <<buyers, swipeEvents, leads, notifications, resp, started>>
    /\ ConcFrame

\* buyers.id is the primary key: a second insert of the id is rejected and
\* the handler's catch answers 400
CCreateBuyer(r) ==
    /\ reqs[r].pc = "createBuyer"
    /\ IF reqs[r].body[1].buyerId \in buyers
          THEN /\ Finish(r, ErrorResp("buyer/swipe", 400))
               /\ UNCHANGED buyers
       ELSE /\ buyers' = buyers \cup {reqs[r].body[1].buyerId}
            /\ Goto(r, "createSwipeEvent")
            /\ UNCHANGED resp
    /\ UNCHANGED <<swipeEvents, leads, notifications, started>>
    /\ ConcFrame

CCreateSwipeEvent(r) ==
    /\ reqs[r].pc = "createSwipeEvent"
    /\ swipeEvents' = Append(swipeEvents, SwipeEventRecord(reqs[r].body[1]))
    /\ Goto(r, "getSwipeEvents")
    /\ UNCHANGED <<buyers, leads, notifications, resp, started>>
    /\ ConcFrame

CGetSwipeEvents(r) ==
    /\ reqs[r].pc = "getSwipeEvents"
    /\ reqs' = [reqs EXCEPT
                   ![r].pc = "getPropertiesByIds",
                   ![r].events = getSwipeEventsByBuyer(swipeEvents, reqs[r].body[1].buyerId)]
    /\ UNCHANGED <<buyers, swipeEvents, leads, notifications, resp, started>>
    /\ ConcFrame

\* storage.getPropertiesByIds, then profile, vector and score; the request
\* answers at once when the creation condition does not fire
CGetPropertiesByIds(r) ==
    /\ reqs[r].pc = "getPropertiesByIds"
    /\ LET body == reqs[r].body[1]
           ev == Evaluate(body, body.listingId, reqs[r].listing[1],
                          reqs[r].events, properties)
       IN IF LeadCondition(body.action, ev.matchScore)
             THEN /\ reqs' = [reqs EXCEPT ![r].pc = "getLead", ![r].ev = Some(ev)]
                  /\ UNCHANGED resp
          ELSE Finish(r, OkResp(ev, FALSE, FALSE))
    /\ UNCHANGED <<buyers, swipeEvents, leads, notifications, started>>
    /\ ConcFrame

CGetLead(r) ==
    /\ reqs[r].pc = "getLead"
    /\ LET ev == reqs[r].ev[1]
           existingLead == getLeadByBuyerAndProperty(leads, ev.buyerId, ev.listingId)
       IN IF ShouldCreateLead(TRUE, existingLead)
             THEN Goto(r, "createLead") /\ UNCHANGED resp
          ELSE Finish(r, OkResp(ev, FALSE, TRUE))
    /\ UNCHANGED <<buyers, swipeEvents, leads, notifications, started>>
    /\ ConcFrame

\* storage.createLead: a plain insert, nothing rejects a second row of the pair
CCreateLead(r) ==
    /\ reqs[r].pc = "createLead"
    /\ leads' = Append(leads, LeadRecord(reqs[r].ev[1]))
    /\ Goto(r, "createNotification")
    /\ UNCHANGED <<buyers, swipeEvents, notifications, resp, started>>
    /\ ConcFrame

CCreateNotification(r) ==
    /\ reqs[r].pc = "createNotification"
    /\ notifications' = Append(notifications, NotificationRecord(reqs[r].ev[1]))
    /\ Finish(r, OkResp(reqs[r].ev[1], TRUE, FALSE))
    /\ UNCHANGED <<buyers, swipeEvents, leads, started>>
    /\ ConcFrame

NextConc ==
    \/ \E r \in Slots, body \in ConcBodies : CStart(r, body)
    \/ \E r \in Slots : CGetProperty(r)
    \/ \E r \in Slots : CGetBuyer(r)
    \/ \E r \in Slots : CCreateBuyer(r)
    \/ \E r \in Slots : CCreateSwipeEvent(r)
    \/ \E r \in Slots : CGetSwipeEvents(r)
    \/ \E r \in Slots : CGetPropertiesByIds(r)
    \/ \E r \in Slots : CGetLead(r)
    \/ \E r \in Slots : CCreateLead(r)
    \/ \E r \in Slots : CCreateNotification(r)

SpecConc == InitConc /\ [][NextConc]_vars

----------------------------------------------------------------------------
(* Legacy session path: POST /api/swipe, GET /api/properties,              *)
(* GET /api/user/stats, for the one consumer session                       *)

NOTIFY_ABOVE == 85
\* critical from 95 on, as the hot threshold of the buyer route
CRITICAL_ABOVE_Inclusive == HOT_THRESHOLD - 1

CRITICAL_ABOVE == 95

SESSION_ID == "s1"

\* position of element i after a stable sort of keys, largest key first
StableRankDesc(keys, i) ==
    1 + Cardinality({j \in 1..Len(keys) :
                        keys[j] > keys[i] \/ (keys[j] = keys[i] /\ j < i)})

\* seq.sort((a, b) => key(b) - key(a)), Array.prototype.sort being stable
SortDescBy(seq, keys) ==
    [k \in 1..Len(seq) |->
        seq[CHOOSE i \in 1..Len(seq) : StableRankDesc(keys, i) = k]]

(* JavaScript numbers: IEEE 754 doubles. A positive double has a 53-bit     *)
(* significand with leading bit 1 and an exponent. The significand is kept  *)
(* in three limbs h (19 bits, leading bit set), m (18 bits) and l (16       *)
(* bits): the value is (h * 2^34 + m * 2^16 + l) * 2^exp.                   *)

RECURSIVE Pow2(_)
Pow2(e) == IF e = 0 THEN 1 ELSE 2 * Pow2(e - 1)

H_BITS == 19
M_BITS == 18
L_BITS == 16

\* the significand plus one unit in the last place
NextDouble(x) ==
    IF x.l + 1 < Pow2(L_BITS) THEN [x EXCEPT !.l = @ + 1]
    ELSE IF x.m + 1 < Pow2(M_BITS) THEN [x EXCEPT !.l = 0, !.m = @ + 1]
    ELSE IF x.h + 1 < Pow2(H_BITS) THEN [x EXCEPT !.l = 0, !.m = 0, !.h = @ + 1]
    ELSE [h |-> Pow2(H_BITS - 1), m |-> 0, l |-> 0, exp |-> x.exp + 1]

\* round to nearest, ties to even: x is the kept significand, `dropped` the
\* `width` bits cut off below it, `sticky` whether anything nonzero lay
\* below those
RoundToDouble(x, dropped, width, sticky) ==
    IF width = 0 THEN x
    ELSE LET halfUnit == Pow2(width - 1)
             half == dropped >= halfUnit
             below == sticky \/ (dropped % halfUnit # 0)
         IN IF half /\ (below \/ x.l % 2 = 1) THEN NextDouble(x) ELSE x

\* the least e with c * 2^e >= t
RECURSIVE ShiftTo(_, _)
ShiftTo(c, t) == IF c >= t THEN 0 ELSE 1 + ShiftTo(2 * c, t)

\* count / total in double arithmetic, for 0 < count <= total < 2^13:
\* long division, M_BITS quotient bits at a time after the leading 1
DoubleDiv(count, total) ==
    LET e == ShiftTo(count, total)
        base == Pow2(M_BITS)
        r0 == count * Pow2(e) - total
        q1 == (r0 * base) \div total
        r1 == (r0 * base) % total
        q2 == (r1 * base) \div total
        r2 == (r1 * base) % total
        q3 == (r2 * base) \div total
        r3 == (r2 * base) % total
        extra == M_BITS - L_BITS       \* quotient bits beyond the significand
    IN RoundToDouble([h |-> base + q1, m |-> q2, l |-> q3 \div Pow2(extra),
                      exp |-> 0 - e - (M_BITS + M_BITS + L_BITS)],
                     q3 % Pow2(extra), extra, r3 # 0)

\* the least d with n < 2^(bits + d)
RECURSIVE Excess(_, _)
Excess(n, bits) == IF n < Pow2(bits) THEN 0 ELSE 1 + Excess(n \div 2, bits)

\* x * k in double arithmetic, for a factor 0 < k <= 1000
DoubleTimes(x, k) ==
    LET pl == x.l * k
        pm == x.m * k + (pl \div Pow2(L_BITS))
        H == x.h * k + (pm \div Pow2(M_BITS))
        M == pm % Pow2(M_BITS)
        L == pl % Pow2(L_BITS)
        d == Excess(H, H_BITS)         \* bits the product is too long by
        cut == Pow2(d)
    IN RoundToDouble([h |-> H \div cut,
                      m |-> (H % cut) * Pow2(M_BITS - d) + (M \div cut),
                      l |-> (M % cut) * Pow2(L_BITS - d) + (L \div cut),
                      exp |-> x.exp + d],
                     L % cut, d, FALSE)

\* Math.round of a positive double below 2^18: the nearest integer, a half
\* rounding up
MathRound(x) ==
    LET s == 0 - (M_BITS + L_BITS + 1 + x.exp)   \* floor(2 x) = h \div 2^s
        twice == IF s > H_BITS THEN 0 ELSE x.h \div Pow2(s)
    IN (twice + 1) \div 2

\* Math.round((count / total) * 100) for 0 < count <= total
Percent(count, total) == MathRound(DoubleTimes(DoubleDiv(count, total), 100))

swipeSchema(body) ==
    /\ body.direction \in {"left", "right"}
    /\ body.matchScore >= 0 /\ body.matchScore <= 100

\* any truthy vibeTag
CountsAsTag_AnyTag(property) ==
    property # None /\ property[1].vibeTag # ""

\* a truthy vibeTag other than Unclassified
CountsAsTag(property) ==
    property # None /\ property[1].vibeTag # "" /\ property[1].vibeTag # "Unclassified"

\* req.session.tasteProfile?.[T] || 0
CountOf(tasteProfile, T) ==
    IF tasteProfile = None THEN 0
    ELSE IF T \in DOMAIN tasteProfile[1] THEN tasteProfile[1][T] ELSE 0

\* req.session.tasteProfile[tag] = (req.session.tasteProfile[tag] || 0) + 1
IncrementTag(tasteProfile, tag) ==
    LET profile == IF tasteProfile = None THEN [t \in {} |-> 0] ELSE tasteProfile[1]
        old == IF tag \in DOMAIN profile THEN profile[tag] ELSE 0
    IN Some([t \in DOMAIN profile \cup {tag} |-> IF t = tag THEN old + 1 ELSE profile[t]])

LegacyNotification(property, body, priority) ==
    [recipientId |-> property.agentId,
     type |-> "match",
     propertyId |-> body.propertyId,
     buyerId |-> "",
     matchScore |-> body.matchScore,
     topBuyerVibe |-> None,
     topListingVibe |-> None,
     priority |-> priority,
     readStatus |-> FALSE]

LegacySwipe(body) ==
    /\ IF ~swipeSchema(body)
          THEN /\ resp' = ErrorResp("swipe", 400)
               /\ UNCHANGED <<swipes, session, notifications, started>>
       ELSE IF PropertyOf(properties, body.propertyId) = None
          THEN /\ resp' = ErrorResp("swipe", 404)
               /\ UNCHANGED <<swipes, session, notifications, started>>
       ELSE
          LET property == properties[body.propertyId]
              notify == body.direction = "right" /\ body.matchScore > NOTIFY_ABOVE
              isCritical == body.matchScore > CRITICAL_ABOVE
              priority == IF isCritical THEN "critical" ELSE "high"
          IN /\ started < MaxSwipes
             /\ started' = started + 1
             /\ swipes' = Append(swipes, [sessionId |-> SESSION_ID,
                                          propertyId |-> body.propertyId,
                                          direction |-> body.direction,
                                          matchScore |-> body.matchScore])
             /\ session' =
                    IF body.direction = "right" /\ CountsAsTag(Some(property))
                       THEN [session EXCEPT
                               !.tasteProfile = IncrementTag(@, property.vibeTag)]
                    ELSE session
             /\ notifications' =
                    IF notify
                       THEN Append(notifications,
                                   LegacyNotification(property, body, priority))
                    ELSE notifications
             /\ resp' = [NoResp EXCEPT
                            !.route = "swipe", !.status = 200,
                            !.listingId = body.propertyId,
                            !.action = body.direction,
                            !.matchScore = body.matchScore,
                            !.notified = IF notify THEN Some(priority) ELSE None,
                            !.emailed = notify /\ isCritical]
    /\ UNCHANGED <<properties, buyers, swipeEvents, leads, reqs, vecResult, apart>>

\* the guard without its null check
TasteScoring_NoNullCheck(sess) ==
    sess.agentId = None

\* if (tasteProfile && Object.keys(tasteProfile).length > 0 && !req.session?.agentId)
TasteScoring(sess) ==
    /\ sess.tasteProfile # None
    /\ DOMAIN sess.tasteProfile[1] # {}
    /\ sess.agentId = None

\* the share of the other tags instead of the tag's own
TasteScore_OfOthers(profile, vibeTag) ==
    LET totalSwipes == SumOver(profile, DOMAIN profile)
    IN IF vibeTag \in DOMAIN profile /\ profile[vibeTag] < totalSwipes
          THEN Some(Percent(totalSwipes - profile[vibeTag], totalSwipes))
       ELSE Some(0)

\* the score of one listing; null (NaN) when the division is 0 / 0
TasteScore(profile, vibeTag) ==
    LET totalSwipes == SumOver(profile, DOMAIN profile)
        tag == IF vibeTag = "" THEN "Unclassified" ELSE vibeTag
    IN IF tag # "Unclassified" /\ tag \in DOMAIN profile /\ profile[tag] # 0
          THEN IF totalSwipes = 0 THEN None
               ELSE Some(Percent(profile[tag], totalSwipes))
       ELSE Some(0)

\* the listings in storage order (no query filter is modelled)
StoredIds(props) ==
    [k \in 1..Cardinality(DOMAIN props) |->
        CHOOSE id \in DOMAIN props :
            Cardinality({other \in DOMAIN props : other < id}) = k - 1]

\* GET /api/properties: Object.values(undefined) throws when the profile is
\* read without being there, and the catch answers 500
GetProperties ==
    /\ IF TasteScoring(session)
          THEN IF session.tasteProfile = None
                  THEN resp' = ErrorResp("properties", 500)
               ELSE
                  LET ids == StoredIds(properties)
                      scores == [k \in 1..Len(ids) |->
                                    TasteScore(session.tasteProfile[1],
                                               properties[ids[k]].vibeTag)]
                      keys == [k \in 1..Len(ids) |->
                                  IF scores[k] = None THEN 0 ELSE scores[k][1]]
                      rows == [k \in 1..Len(ids) |->
                                  [id |-> ids[k], tasteScore |-> scores[k]]]
                  IN resp' = [NoResp EXCEPT
                                !.route = "properties", !.status = 200,
                                !.scored = TRUE,
                                !.tasteScores = SortDescBy(rows, keys)]
       ELSE resp' = [NoResp EXCEPT !.route = "properties", !.status = 200]
    /\ UNCHANGED <<properties, buyers, swipeEvents, leads, notifications,
                   reqs, started, session, swipes, vecResult, apart>>

\* storage.getRightSwipesBySession
getRightSwipesBySession(rows, sessionId) ==
    SelectSeq(rows, LAMBDA w : w.sessionId = sessionId /\ w.direction = "right")

\* the tags counted by the loop over rightSwipes, one per counted swipe
CountedTags(rightSwipes, props) ==
    LET tagAt(i) == PropertyOf(props, rightSwipes[i].propertyId)
        counted == SelectSeq([i \in 1..Len(rightSwipes) |-> tagAt(i)], CountsAsTag)
    IN [i \in 1..Len(counted) |-> counted[i][1].vibeTag]

\* Object.entries(vibeCounts): the keys in the order of their first insertion
RECURSIVE InsertionOrder(_)
InsertionOrder(tags) ==
    IF tags = <<>> THEN <<>>
    ELSE LET front == InsertionOrder(SubSeq(tags, 1, Len(tags) - 1))
             last == tags[Len(tags)]
         IN IF \E i \in 1..Len(front) : front[i] = last
               THEN front ELSE Append(front, last)

\* vibePercentages, topVibe and totalSwipes of GET /api/user/stats
UserStats(rightSwipes, props) ==
    LET tags == CountedTags(rightSwipes, props)
        totalTagged == Len(tags)
        keys == InsertionOrder(tags)
        count(t) == Cardinality({i \in 1..Len(tags) : tags[i] = t})
        entries == [k \in 1..Len(keys) |->
                      [vibe |-> keys[k], count |-> count(keys[k]),
                       percentage |-> IF totalTagged > 0
                                         THEN Percent(count(keys[k]), totalTagged)
                                      ELSE 0]]
        sorted == SortDescBy(entries, [k \in 1..Len(keys) |-> entries[k].count])
    IN [vibePercentages |-> sorted,
        topVibe |-> FirstVibe(sorted),
        totalSwipes |-> Len(rightSwipes)]

\* GET /api/user/stats (topPicks and savedHomes, listings read for display,
\* are left out of the response)
GetUserStats ==
    /\ LET stats == UserStats(getRightSwipesBySession(swipes, SESSION_ID), properties)
       IN resp' = [NoResp EXCEPT
                     !.route = "user/stats", !.status = 200,
                     !.vibePercentages = stats.vibePercentages,
                     !.topVibe = stats.topVibe,
                     !.totalSwipes = stats.totalSwipes]
    /\ UNCHANGED <<properties, buyers, swipeEvents, leads, notifications,
                   reqs, started, session, swipes, vecResult, apart>>

LegacyCatalogs ==
    { <<Tagged("Monarch"), Tagged("Purist")>>,
      <<Tagged("Naturalist"), Tagged("Unclassified")>> }

LegacyBody(p, d, m) == [propertyId |-> p, direction |-> d, matchScore |-> m]

LegacyBodies ==
    {LegacyBody(p, d, m) : p \in ListingIds, d \in {"left", "right"},
                           m \in {NOTIFY_ABOVE, NOTIFY_ABOVE + 1,
                                  CRITICAL_ABOVE, CRITICAL_ABOVE + 1}}
    \cup {LegacyBody(1, "up", 50), LegacyBody(1, "right", 101),
          LegacyBody(MissingListingId, "right", 50)}

InitLegacy ==
    /\ properties \in LegacyCatalogs
    /\ InitRest

NextLegacy ==
    \/ \E body \in LegacyBodies : LegacySwipe(body)
    \/ GetProperties
    \/ GetUserStats

SpecLegacy == InitLegacy /\ [][NextLegacy]_vars

(* Both paths of one deployment; buyer b2 never swipes *)

ColdBodies ==
    {Body("b1", l, a, 0) : l \in ListingIds, a \in BUYER_ACTIONS}
    \cup {Body("b1", MissingListingId, "like", 0)}

ColdLegacyBodies ==
    {LegacyBody(p, d, 50) : p \in ListingIds, d \in {"left", "right"}}
    \cup {LegacyBody(MissingListingId, "right", 50)}

NextSite ==
    \/ \E body \in ColdBodies : BuyerSwipe(body)
    \/ \E buyerId \in Buyers \cup {""} : GetBuyerProfile(buyerId)
    \/ \E body \in ColdLegacyBodies : LegacySwipe(body)
    \/ GetProperties
    \/ GetUserStats

SpecSite == InitProfile /\ [][NextSite]_vars

----------------------------------------------------------------------------
(* Taste scoring in a session with a swipe history: the swipes table holds  *)
(* the session's earlier right swipes and the session its tally of them.    *)

\* n1 right swipes on listing 1 followed by n2 on listing 2
History(n1, n2) ==
    [i \in 1..(n1 + n2) |->
        [sessionId |-> SESSION_ID,
         propertyId |-> IF i <= n1 THEN 1 ELSE 2,
         direction |-> "right",
         matchScore |-> 50]]

HistoryCounts == {0, 1, 17, 23}

\* req.session.tasteProfile after the right swipes `rows`: one increment per
\* qualifying swipe
TallyProfile(rows, props) ==
    LET tags == CountedTags(getRightSwipesBySession(rows, SESSION_ID), props)
        keys == {tags[i] : i \in 1..Len(tags)}
    IN IF keys = {} THEN None
       ELSE Some([t \in keys |-> Cardinality({i \in 1..Len(tags) : tags[i] = t})])

\* POST /api/auth/login with valid credentials: the session is kept
AgentLogin(agentId) ==
    /\ session' = [session EXCEPT !.agentId = Some(agentId)]
    /\ resp' = [NoResp EXCEPT !.route = "auth/login", !.status = 200]
    /\ UNCHANGED <<properties, buyers, swipeEvents, leads, notifications,
                   reqs, started, swipes, vecResult, apart>>

InitScore ==
    /\ properties \in LegacyCatalogs
    /\ \E n1 \in HistoryCounts, n2 \in HistoryCounts : swipes = History(n1, n2)
    /\ session = [tasteProfile |-> TallyProfile(swipes, properties), agentId |-> None]
    /\ buyers = {}
    /\ swipeEvents = <<>>
    /\ leads = <<>>
    /\ notifications = <<>>
    /\ resp = NoResp
    /\ reqs = [r \in Slots |-> IdleReq]
    /\ started = 0
    /\ vecResult = None
    /\ InitApart

NextScore ==
    \/ \E body \in ColdLegacyBodies : LegacySwipe(body)
    \/ GetProperties
    \/ \E agentId \in {1} : AgentLogin(agentId)

SpecScore == InitScore /\ [][NextScore]_vars

----------------------------------------------------------------------------
(* POST /api/swipe, requests of one session in flight together. The session *)
(* middleware gives every request its own copy of the stored session when   *)
(* the request arrives and writes the copy back, if the handler changed it, *)
(* when the response ends; `session` is the stored session.                 *)

IdleSessReq == [pc |-> "idle", body |-> None, listing |-> None,
                loaded |-> None, session |-> None, notified |-> None]

\* a save that adds the request's own change to what is stored
SavedSession_Merge(stored, loaded, mine) ==
    IF mine = loaded THEN stored
    ELSE LET tag == CHOOSE t \in DOMAIN mine.tasteProfile[1] :
                        CountOf(mine.tasteProfile, t) # CountOf(loaded.tasteProfile, t)
         IN [stored EXCEPT !.tasteProfile = IncrementTag(@, tag)]

\* the stored session after the response of a request that loaded `loaded`
\* and holds `mine`: resave is false, so an unchanged copy is not written
SavedSession(stored, loaded, mine) ==
    IF mine = loaded THEN stored ELSE mine

SessBodies ==
    {LegacyBody(1, "right", 50), LegacyBody(1, "right", NOTIFY_ABOVE + 1),
     LegacyBody(2, "right", 50), LegacyBody(1, "left", 50),
     LegacyBody(1, "up", 50), LegacyBody(MissingListingId, "right", 50)}

SessFrame == UNCHANGED <<properties, buyers, swipeEvents, leads, vecResult, apart>>

\* res.json / res.status(...).json: the response ends and the session is saved
SessFinish(r, response) ==
    /\ session' = SavedSession(session, reqs[r].loaded[1], reqs[r].session[1])
    /\ reqs' = [reqs EXCEPT ![r] = IdleSessReq]
    /\ resp' = response

\* the session is loaded, swipeSchema.parse, then the call of storage.getProperty
SStart(r, body) ==
    /\ reqs[r].pc = "idle"
    /\ IF ~swipeSchema(body)
          THEN /\ resp' = ErrorResp("swipe", 400)
               /\ UNCHANGED <<reqs, started>>
       ELSE /\ started < MaxRequests
            /\ started' = started + 1
            /\ reqs' = [reqs EXCEPT ![r] =
                           [IdleSessReq EXCEPT !.pc = "getProperty",
                                               !.body = Some(body),
                                               !.loaded = Some(session),
                                               !.session = Some(session)]]
            /\ UNCHANGED resp
    /\ UNCHANGED <<session, swipes, notifications>>
    /\ SessFrame

SGetProperty(r) ==
    /\ reqs[r].pc = "getProperty"
    /\ LET listing == PropertyOf(properties, reqs[r].body[1].propertyId)
       IN IF listing = None
             THEN SessFinish(r, ErrorResp("swipe", 404))
          ELSE /\ reqs' = [reqs EXCEPT ![r].pc = "createSwipe", ![r].listing = listing]
               /\ UNCHANGED <<resp, session>>
    /\ UNCHANGED <<swipes, notifications, started>>
    /\ SessFrame

\* storage.createSwipe, then the increment on the request's copy of the
\* session; the request answers at once when no notification is due
SCreateSwipe(r) ==
    /\ reqs[r].pc = "createSwipe"
    /\ LET body == reqs[r].body[1]
           property == reqs[r].listing[1]
           mine == IF body.direction = "right" /\ CountsAsTag(Some(property))
                      THEN [reqs[r].session[1] EXCEPT
                              !.tasteProfile = IncrementTag(@, property.vibeTag)]
                   ELSE reqs[r].session[1]
           notify == body.direction = "right" /\ body.matchScore > NOTIFY_ABOVE
       IN /\ swipes' = Append(swipes, [sessionId |-> SESSION_ID,
                                       propertyId |-> body.propertyId,
                                       direction |-> body.direction,
                                       matchScore |-> body.matchScore])
          /\ IF notify
                THEN /\ reqs' = [reqs EXCEPT ![r].pc = "createNotification",
                                             ![r].session = Some(mine)]
                     /\ UNCHANGED <<resp, session>>
             ELSE /\ session' = SavedSession(session, reqs[r].loaded[1], mine)
                  /\ reqs' = [reqs EXCEPT ![r] = IdleSessReq]
                  /\ resp' = [NoResp EXCEPT
                                 !.route = "swipe", !.status = 200,
                                 !.listingId = body.propertyId,
                                 !.action = body.direction,
                                 !.matchScore = body.matchScore]
    /\ UNCHANGED <<notifications, started>>
    /\ SessFrame

SCreateNotification(r) ==
    /\ reqs[r].pc = "createNotification"
    /\ LET body == reqs[r].body[1]
           isCritical == body.matchScore > CRITICAL_ABOVE
           priority == IF isCritical THEN "critical" ELSE "high"
       IN /\ notifications' = Append(notifications,
                                     LegacyNotification(reqs[r].listing[1], body, priority))
          /\ SessFinish(r, [NoResp EXCEPT
                               !.route = "swipe", !.status = 200,
                               !.listingId = body.propertyId,
                               !.action = body.direction,
                               !.matchScore = body.matchScore,
                               !.notified = Some(priority),
                               !.emailed = isCritical])
    /\ UNCHANGED <<swipes, started>>
    /\ SessFrame

InitSess ==
    /\ properties \in LegacyCatalogs
    /\ buyers = {}
    /\ swipeEvents = <<>>
    /\ leads = <<>>
    /\ notifications = <<>>
    /\ resp = NoResp
    /\ reqs = [r \in Slots |-> IdleSessReq]
    /\ started = 0
    /\ session = [tasteProfile |-> None, agentId |-> None]
    /\ swipes = <<>>
    /\ vecResult = None
    /\ InitApart

NextSess ==
    \/ \E r \in Slots, body \in SessBodies : SStart(r, body)
    \/ \E r \in Slots : SGetProperty(r)
    \/ \E r \in Slots : SCreateSwipe(r)
    \/ \E r \in Slots : SCreateNotification(r)

SpecSess == InitSess /\ [][NextSess]_vars

----------------------------------------------------------------------------
(* Listing maintenance by agents, and the vector derived from the stored    *)
(* record: POST /api/properties created listing 1, PATCH and retag rewrite  *)
(* it, getListingVector reads it.                                           *)

SUPER_ADMIN_EMAIL == "vinnysladeb@gmail.com"

\* answers of classifyPropertyImage: a matched archetype, its default, or
\* Unclassified
ClassifierTags == {"Purist", "Classicist", "Unclassified"}

AgentSessions ==
    { [agentId |-> None, agentEmail |-> "", organizationId |-> 0],
      [agentId |-> Some(1), agentEmail |-> "a@org1", organizationId |-> 1],
      [agentId |-> Some(2), agentEmail |-> "b@org2", organizationId |-> 2],
      [agentId |-> Some(3), agentEmail |-> SUPER_ADMIN_EMAIL, organizationId |-> 2] }

isSuperAdmin(sess) == sess.agentEmail = SUPER_ADMIN_EMAIL

\* the checks without the organization check
Refusal_NoOrgCheck(sess, id) ==
    IF sess.agentId = None THEN 401
    ELSE IF PropertyOf(properties, id) = None THEN 404
    ELSE 0

\* requireAgent and the checks at the head of the three handlers:
\* the status of the refusal, 0 when the request goes through
Refusal(sess, id) ==
    IF sess.agentId = None THEN 401
    ELSE IF PropertyOf(properties, id) = None THEN 404
    ELSE IF ~isSuperAdmin(sess) /\ properties[id].organizationId # sess.organizationId
        THEN 403
    ELSE 0

\* request bodies of PATCH: the columns they set
PatchBodies ==
    {[f \in {"vibeTag"} |-> t] : t \in {"Monarch", "Unclassified", "Loft"}}
    \cup {[f \in {"vibeTop"} |-> t] :
             t \in {<<>>, <<[vibe |-> "Naturalist", score |-> 90]>>,
                    <<[vibe |-> "Loft", score |-> 90]>>}}
    \cup {[f \in {"vibeVector"} |-> w] :
             w \in {None, Some([v \in {} |-> 0]),
                    Some([v \in {"Monarch"} |-> One + 50]),
                    Some([v \in {"Unclassified"} |-> One]),
                    Some([v \in {"Naturalist", "Purist"} |->
                             IF v = "Naturalist" THEN 90 ELSE 40])}}

\* storage.updateProperty: db.update(properties).set(data)
updateProperty(props, id, data) ==
    [props EXCEPT ![id] =
        [f \in DOMAIN props[id] |-> IF f \in DOMAIN data THEN data[f] ELSE props[id][f]]]

VecFrame ==
    UNCHANGED <<buyers, swipeEvents, leads, notifications, reqs, started,
                session, swipes, apart>>

\* PATCH /api/properties/:id
PatchProperty(sess, id, body) ==
    /\ LET refusal == Refusal(sess, id)
       IN IF refusal # 0
             THEN /\ resp' = ErrorResp("properties/patch", refusal)
                  /\ UNCHANGED properties
          ELSE /\ properties' = updateProperty(properties, id, body)
               /\ resp' = [NoResp EXCEPT !.route = "properties/patch",
                                         !.status = 200, !.listingId = id]
    /\ UNCHANGED vecResult
    /\ VecFrame

\* POST /api/properties/:id/retag
RetagProperty(sess, id, vibeTag) ==
    /\ LET refusal == Refusal(sess, id)
       IN IF refusal # 0
             THEN /\ resp' = ErrorResp("properties/retag", refusal)
                  /\ UNCHANGED properties
          ELSE /\ properties' = updateProperty(properties, id, [f \in {"vibeTag"} |-> vibeTag])
               /\ resp' = [NoResp EXCEPT !.route = "properties/retag",
                                         !.status = 200, !.listingId = id]
    /\ UNCHANGED vecResult
    /\ VecFrame

\* storage.deleteProperty: the row goes, nothing cascades
deleteProperty(props, id) ==
    [i \in DOMAIN props \ {id} |-> props[i]]

\* DELETE /api/properties/:id
DeleteProperty(sess, id) ==
    /\ LET refusal == Refusal(sess, id)
       IN IF refusal # 0
             THEN /\ resp' = ErrorResp("properties/delete", refusal)
                  /\ UNCHANGED properties
          ELSE /\ properties' = deleteProperty(properties, id)
               /\ resp' = [NoResp EXCEPT !.route = "properties/delete",
                                         !.status = 200, !.listingId = id]
    /\ UNCHANGED vecResult
    /\ VecFrame

\* getListingVector(listing) on the stored record of listing 1
DeriveListingVector ==
    /\ 1 \in DOMAIN properties
    /\ vecResult' = Some([of |-> properties[1],
                          vector |-> getListingVector(PropertyOf(properties, 1))])
    /\ UNCHANGED <<properties, resp>>
    /\ VecFrame

InitVec ==
    /\ \E t \in ClassifierTags : properties = <<Tagged(t)>>
    /\ InitRest

NextVec ==
    \/ \E sess \in AgentSessions, id \in {1, 2}, body \in PatchBodies :
            PatchProperty(sess, id, body)
    \/ \E sess \in AgentSessions, id \in {1, 2}, t \in ClassifierTags :
            RetagProperty(sess, id, t)
    \/ \E sess \in AgentSessions, id \in {1, 2} : DeleteProperty(sess, id)
    \/ DeriveListingVector

SpecVec == InitVec /\ [][NextVec]_vars

----------------------------------------------------------------------------
(* Buyers swipe and read their profiles while agents maintain the listings *)

DriftBodies ==
    {Body("b1", 1, "like", 0), Body("b1", 2, "nope", 1500), Body("b2", 1, "save", 0)}

DriftPatchBodies ==
    { [f \in {"vibeTop"} |-> <<[vibe |-> "Naturalist", score |-> 90]>>] }

DriftTags == {"Purist", "Unclassified"}

\* the agent of the listings' organization
DriftSessions == {a \in AgentSessions : a.agentId = Some(1)}

NextDrift ==
    \/ \E body \in DriftBodies : BuyerSwipe(body)
    \/ \E buyerId \in Buyers : GetBuyerProfile(buyerId)
    \/ \E sess \in DriftSessions, id \in ListingIds, body \in DriftPatchBodies :
            PatchProperty(sess, id, body)
    \/ \E sess \in DriftSessions, id \in ListingIds, t \in DriftTags :
            RetagProperty(sess, id, t)
    \/ \E sess \in DriftSessions, id \in ListingIds : DeleteProperty(sess, id)

SpecDrift == InitProfile /\ [][NextDrift]_vars

(* Maintenance requests from every kind of session *)

\* PATCH bodies: a column of the listing's content, or the organization the
\* listing belongs to (the body goes to updateProperty as it came)
TenancyPatchBodies ==
    DriftPatchBodies \cup {[f \in {"organizationId"} |-> o] : o \in {1, 2}}

NextTenancy ==
    \/ \E sess \in AgentSessions, id \in ListingIds, body \in TenancyPatchBodies :
            PatchProperty(sess, id, body)
    \/ \E sess \in AgentSessions, id \in ListingIds, t \in DriftTags :
            RetagProperty(sess, id, t)
    \/ \E sess \in AgentSessions, id \in ListingIds : DeleteProperty(sess, id)

SpecTenancy == InitProfile /\ [][NextTenancy]_vars

----------------------------------------------------------------------------
(* POST /api/buyer/swipe with a storage failure: storage.createNotification  *)
(* rejects after storage.createLead has resolved, and the catch answers 400  *)

BuyerSwipeNotificationFails(body) ==
    /\ buyerSwipeSchema(body)
    /\ PropertyOf(properties, body.listingId) # None
    /\ LET listing == properties[body.listingId]
           evs == Append(swipeEvents, SwipeEventRecord(body))
           events == getSwipeEventsByBuyer(evs, body.buyerId)
           ev == Evaluate(body, body.listingId, listing, events, properties)
           fires == LeadCondition(body.action, ev.matchScore)
           existingLead ==
               getLeadByBuyerAndProperty(leads, body.buyerId, body.listingId)
       IN /\ Len(swipeEvents) < MaxEvents
          /\ ShouldCreateLead(fires, existingLead)
          /\ buyers' = buyers \cup {body.buyerId}
          /\ swipeEvents' = evs
          /\ leads' = Append(leads, LeadRecord(ev))
          /\ UNCHANGED notifications
          /\ resp' = ErrorResp("buyer/swipe", 400)
    /\ UNCHANGED <<properties, reqs, started, session, swipes, vecResult, apart>>

NextOutage ==
    \/ \E body \in ValidBodies : BuyerSwipe(body)
    \/ \E body \in ValidBodies : BuyerSwipeNotificationFails(body)

SpecOutage == Init /\ [][NextOutage]_vars

----------------------------------------------------------------------------
(* Service worker: install, activate and fetch events *)

\* what the worker does not touch
ServerFrame == UNCHANGED <<server, imports, client, auth, monitor>>

STATIC_ASSETS ==
    <<"/", "/discover", "/icon-192.png", "/icon-512.png", "/favicon.png",
      "/manifest.json">>

ORIGIN == "luxeestates.app"

UPPER == "ABCDEFGHIJKLMNOPQRSTUVWXYZ"

LOWER == "abcdefghijklmnopqrstuvwxyz"

\* one character, lower-cased
LowerChar(ch) ==
    IF \E i \in 1..Len(UPPER) : SubSeq(UPPER, i, i) = ch
        THEN LET i == CHOOSE i \in 1..Len(UPPER) : SubSeq(UPPER, i, i) = ch
             IN SubSeq(LOWER, i, i)
    ELSE ch

RECURSIVE LowerCase(_)
LowerCase(str) ==
    IF Len(str) = 0 THEN str
    ELSE LowerChar(SubSeq(str, 1, 1)) \o LowerCase(SubSeq(str, 2, Len(str)))

\* String.prototype.startsWith
StartsWith(str, prefix) ==
    Len(str) >= Len(prefix) /\ SubSeq(str, 1, Len(prefix)) = prefix

EndsWith(str, suffix) ==
    /\ Len(str) >= Len(suffix)
    /\ SubSeq(str, Len(str) - Len(suffix) + 1, Len(str)) = suffix

\* String.prototype.includes
Includes(str, part) ==
    \E i \in 1..(Len(str) - Len(part) + 1) :
        SubSeq(str, i, i + Len(part) - 1) = part

IMAGE_EXTENSIONS == {"png", "jpg", "jpeg", "webp", "svg", "gif"}

\* the match without the i flag
IsImagePath_CaseSensitive(pathname) ==
    \E ext \in IMAGE_EXTENSIONS : EndsWith(pathname, "." \o ext)

\* url.pathname.match(/\.(png|jpg|jpeg|webp|svg|gif)$/i)
IsImagePath(pathname) ==
    \E ext \in IMAGE_EXTENSIONS : EndsWith(LowerCase(pathname), "." \o ext)

IsFontHost(hostname) ==
    \/ Includes(hostname, "fonts.googleapis.com")
    \/ Includes(hostname, "fonts.gstatic.com")

Request(method, hostname, pathname) ==
    [method |-> method, hostname |-> hostname, pathname |-> pathname]

UrlOf(request) == request.hostname \o request.pathname

\* the requests the pages make
Requests ==
    { Request("GET", ORIGIN, "/discover"),
      Request("GET", ORIGIN, "/photos/1.PNG"),
      Request("GET", ORIGIN, "/icon-192.png"),
      Request("GET", "fonts.gstatic.com", "/s/inter.woff2"),
      Request("GET", ORIGIN, "/api/properties"),
      Request("GET", ORIGIN, "/api/media/1.png"),
      Request("POST", ORIGIN, "/discover"),
      Request("POST", ORIGIN, "/upload/1.png") }

\* what fetch(request) does: a response, or a rejection when offline
NetworkOutcomes == {200, 404, 0}

Response(status) == [status |-> status, ok |-> status >= 200 /\ status <= 299]

\* caches.match(request): the first cache, in creation order, with the url
CachesMatch(cs, url) ==
    IF \E i \in DOMAIN cs : url \in DOMAIN cs[i]
        THEN LET i == CHOOSE i \in DOMAIN cs :
                          /\ url \in DOMAIN cs[i]
                          /\ \A j \in DOMAIN cs : url \in DOMAIN cs[j] => i <= j
             IN Some(cs[i][url])
    ELSE None

CacheIndex(cacheName) == CHOOSE i \in DOMAIN CacheNames : CacheNames[i] = cacheName

\* cache.put(request, response.clone()) on caches.open(cacheName)
CachePut(cs, cacheName, url, response) ==
    [cs EXCEPT ![CacheIndex(cacheName)] =
        [u \in DOMAIN @ \cup {url} |-> IF u = url THEN response ELSE @[u]]]

Answered(url, fetched, source, status) ==
    [url |-> url, responded |-> TRUE, fetched |-> fetched, source |-> source,
     status |-> status]

\* cacheFirst(request, cacheName); outcome 0 is a rejected fetch
cacheFirst(request, cacheName, outcome) ==
    LET cached == CachesMatch(caches, UrlOf(request))
    IN IF cached # None
          THEN /\ answer' = Answered(UrlOf(request), FALSE, "cache", cached[1].status)
               /\ UNCHANGED caches
       ELSE IF outcome = 0
          THEN /\ answer' = Answered(UrlOf(request), TRUE, "offline", 408)
               /\ UNCHANGED caches
       ELSE /\ answer' = Answered(UrlOf(request), TRUE, "network", outcome)
            /\ caches' = IF Response(outcome).ok
                             THEN CachePut(caches, cacheName, UrlOf(request),
                                           Response(outcome))
                          ELSE caches

\* networkFirst(request)
networkFirst(request, outcome) ==
    IF outcome = 0
       THEN LET cached == CachesMatch(caches, UrlOf(request))
            IN /\ answer' = IF cached # None
                                THEN Answered(UrlOf(request), TRUE, "cache",
                                              cached[1].status)
                             ELSE Answered(UrlOf(request), TRUE, "offline", 503)
               /\ UNCHANGED caches
    ELSE /\ answer' = Answered(UrlOf(request), TRUE, "network", outcome)
         /\ caches' = IF Response(outcome).ok
                          THEN CachePut(caches, CACHE_NAME, UrlOf(request),
                                        Response(outcome))
                       ELSE caches

\* the fetch listener; without respondWith the browser performs the request
FetchEvent(request, outcome) ==
    /\ IF request.method # "GET" \/ StartsWith(request.pathname, "/api/")
          THEN /\ answer' = [NoAnswer EXCEPT !.url = UrlOf(request)]
               /\ UNCHANGED caches
       ELSE IF IsImagePath(request.pathname)
          THEN cacheFirst(request, IMAGE_CACHE, outcome)
       ELSE IF IsFontHost(request.hostname)
          THEN cacheFirst(request, FONT_CACHE, outcome)
       ELSE networkFirst(request, outcome)
    /\ ServerFrame

RECURSIVE AddAll(_, _, _)
AddAll(cs, cacheName, urls) ==
    IF urls = <<>> THEN cs
    ELSE AddAll(CachePut(cs, cacheName, ORIGIN \o Head(urls), Response(200)),
                cacheName, Tail(urls))

\* the install listener: cache.addAll stores the assets when every one of
\* them was fetched with an ok status, and nothing otherwise
InstallEvent(allOk) ==
    /\ caches' = IF allOk THEN AddAll(caches, CACHE_NAME, STATIC_ASSETS) ELSE caches
    /\ UNCHANGED answer
    /\ ServerFrame

\* the activate listener: caches of other names are deleted
ActivateEvent ==
    /\ caches' = [i \in DOMAIN caches |->
                     IF CacheNames[i] \in {CACHE_NAME, IMAGE_CACHE, FONT_CACHE}
                        THEN caches[i] ELSE <<>>]
    /\ UNCHANGED answer
    /\ ServerFrame

\* what the earlier version of the worker may have left
OldCaches ==
    { <<>>, [u \in {ORIGIN \o "/discover", ORIGIN \o "/photos/1.PNG"} |-> Response(200)] }

InitWorker ==
    /\ InitServer
    /\ properties \in ProfileCatalogs
    /\ \E old \in OldCaches :
           caches = [i \in DOMAIN CacheNames |->
                        IF CacheNames[i] = OLD_CACHE THEN old ELSE <<>>]
    /\ answer = NoAnswer
    /\ InitImportsIdle
    /\ InitClientIdle
    /\ InitAuthIdle
    /\ InitMonitorReady

NextWorker ==
    \/ \E request \in Requests, outcome \in NetworkOutcomes :
            FetchEvent(request, outcome)
    \/ \E allOk \in BOOLEAN : InstallEvent(allOk)
    \/ ActivateEvent

SpecWorker == InitWorker /\ [][NextWorker]_vars

----------------------------------------------------------------------------
(* Portfolio imports: POST /api/portfolio/import/url and /csv answer 202    *)
(* and run the job in a setImmediate callback; every await of the job is a  *)
(* step. The runtime record keeps status, progress, stage, counts and       *)
(* error; reasonCode, triedStrategies, debug and the timestamps are left    *)
(* out.                                                                      *)

MaxCallbacks == 2       \* progress callbacks of runPortfolioImportJob per job

\* what the imports do not touch
ImportFrame ==
    UNCHANGED <<properties, buyers, swipeEvents, leads, notifications, reqs,
                started, session, swipes, vecResult, worker, client, auth,
                monitor>>

\* {...a, ...b} on count records
Merge(a, b) ==
    [k \in DOMAIN a \cup DOMAIN b |-> IF k \in DOMAIN b THEN b[k] ELSE a[k]]

NoCounts == [k \in {} |-> 0]

\* the counts of an update, 0 where the update has none
Counts4(discovered, processed, mediaTotal, mediaDownloaded) ==
    [discovered |-> discovered, processed |-> processed,
     mediaTotal |-> mediaTotal, mediaDownloaded |-> mediaDownloaded]

\* setImportRuntime: the fields of the patch over those of the existing
\* record, over the defaults
setImportRuntime(runtime, jobId, patch) ==
    LET existing == runtime[jobId]
        default ==
            [status |-> IF existing # None /\ existing[1].status # ""
                           THEN existing[1].status ELSE "queued",
             progress |-> IF existing # None THEN existing[1].progress ELSE 0,
             stage |-> IF existing # None /\ existing[1].stage # ""
                          THEN existing[1].stage ELSE "queued",
             counts |-> IF existing # None THEN existing[1].counts ELSE NoCounts,
             error |-> IF existing # None THEN existing[1].error ELSE None]
    IN [runtime EXCEPT ![jobId] =
           Some([f \in DOMAIN default |->
                    IF f \in DOMAIN patch THEN patch[f] ELSE default[f]])]

\* importJobRuntime.get(jobId)?.counts || {}
CountsOfJob(runtime, jobId) ==
    IF runtime[jobId] # None THEN runtime[jobId][1].counts ELSE NoCounts

\* runtime?.progress ?? fallback
ProgressOfJob(runtime, jobId, fallback) ==
    IF runtime[jobId] # None THEN runtime[jobId][1].progress ELSE fallback

JobRow(status, error) == [status |-> status, error |-> error]

\* the two POST handlers up to the 202: the runtime record, then the row;
\* a rejected storage.createImportJob is answered 400 by the catch
PostImport(j, kind, counts, storageOk) ==
    /\ jobs[j].pc = "none"
    /\ importJobRuntime' =
           setImportRuntime(importJobRuntime, j,
               [status |-> "queued", progress |-> 0, stage |-> "queued",
                counts |-> counts, error |-> None])
    /\ IF storageOk
          THEN /\ importJobs' = [importJobs EXCEPT ![j] = Some(JobRow("queued", None))]
               /\ jobs' = [jobs EXCEPT ![j] = [pc |-> "scheduled", kind |-> kind, calls |-> 0]]
               /\ resp' = [NoResp EXCEPT
                             !.route = "portfolio/import/" \o kind, !.status = 202,
                             !.job = Some([id |-> j])]
       ELSE /\ UNCHANGED importJobs
            /\ jobs' = [jobs EXCEPT ![j] = [pc |-> "refused", kind |-> kind, calls |-> 0]]
            /\ resp' = ErrorResp("portfolio/import/" \o kind, 400)
    /\ ImportFrame

\* POST /api/portfolio/import/url
PostImportUrl(j, storageOk) ==
    /\ importJobs[j] = None
    /\ PostImport(j, "url", [discovered |-> 0, fetched |-> 0, parsed |-> 0], storageOk)

\* listings.length of the uploaded CSV
CSV_ROWS == 2

\* POST /api/portfolio/import/csv
PostImportCsv(j, storageOk) ==
    /\ importJobs[j] = None
    /\ PostImport(j, "csv", [discovered |-> CSV_ROWS, processed |-> 0], storageOk)

JobFrame == UNCHANGED resp /\ ImportFrame

\* the first statement of the background task
StartJob(j) ==
    /\ jobs[j].pc = "scheduled"
    /\ IF jobs[j].kind = "url"
          THEN /\ importJobRuntime' =
                      setImportRuntime(importJobRuntime, j,
                          [status |-> "running", progress |-> 5, stage |-> "fetching"])
               /\ jobs' = [jobs EXCEPT ![j].pc = "pipeline0"]
       ELSE /\ importJobRuntime' =
                   setImportRuntime(importJobRuntime, j,
                       [status |-> "running", progress |-> 30,
                        stage |-> "parsing listings"])
            /\ jobs' = [jobs EXCEPT ![j].pc = "importing"]
    /\ UNCHANGED importJobs
    /\ JobFrame

\* the onProgress updates of runUrlImportPipeline, in the order it sends them
PIPELINE_UPDATES ==
    << [stage |-> "fetching", progress |-> 20,
        counts |-> [discovered |-> 1, fetched |-> 0, parsed |-> 0]],
       [stage |-> "parsing", progress |-> 55,
        counts |-> [discovered |-> 1, fetched |-> 1, parsed |-> 0]],
       [stage |-> "parsing", progress |-> 70,
        counts |-> [discovered |-> 1, fetched |-> 1, parsed |-> 1]] >>

PipelinePc(k) == <<"pipeline0", "pipeline1", "pipeline2", "pipeline3">>[k + 1]

\* runUrlImportPipeline calls onProgress for the k-th time
PipelineProgress(j, k) ==
    /\ jobs[j].pc = PipelinePc(k - 1)
    /\ LET update == PIPELINE_UPDATES[k]
       IN importJobRuntime' =
              setImportRuntime(importJobRuntime, j,
                  [status |-> "running", progress |-> update.progress,
                   stage |-> update.stage,
                   counts |-> Merge(CountsOfJob(importJobRuntime, j), update.counts)])
    /\ jobs' = [jobs EXCEPT ![j].pc = PipelinePc(k)]
    /\ UNCHANGED importJobs
    /\ JobFrame

\* storage.updateImportJob(jobId, {status: "failed", error})
updateImportJob(rows, jobId, error) ==
    [rows EXCEPT ![jobId] = Some(JobRow("failed", Some(error)))]

URL_IMPORT_FAIL_MESSAGE == "import failed"

\* a catch that only logs
Caught_Swallowed(runtime, j, kind, storageOk) ==
    /\ importJobRuntime' = runtime
    /\ UNCHANGED importJobs
    /\ jobs' = [jobs EXCEPT ![j].pc = "ended"]

\* the catch of the background task; a rejected storage.updateImportJob
\* leaves the row as it is
Caught(runtime, j, kind, storageOk) ==
    LET message == IF kind = "url" THEN URL_IMPORT_FAIL_MESSAGE ELSE "CSV import failed"
    IN /\ importJobRuntime' =
              setImportRuntime(runtime, j,
                  [status |-> "failed", stage |-> "failed",
                   progress |-> ProgressOfJob(runtime, j, 0),
                   error |-> Some(message)])
       /\ importJobs' = IF storageOk THEN updateImportJob(importJobs, j, message)
                        ELSE importJobs
       /\ jobs' = [jobs EXCEPT ![j].pc = "ended"]

\* the pipeline returns {ok: false}: the fetch was rejected or answered
\* with a status that is not ok
PipelineNotOk(j, storageOk) ==
    /\ jobs[j].pc = "pipeline1"
    /\ LET errorMessage == "Couldn't import from that URL. Reason: fetch_failed"
           failed == setImportRuntime(importJobRuntime, j,
                         [status |-> "failed", stage |-> "failed",
                          progress |-> ProgressOfJob(importJobRuntime, j, 0),
                          error |-> Some(errorMessage)])
       IN IF storageOk
             THEN /\ importJobRuntime' = failed
                  /\ importJobs' = updateImportJob(importJobs, j, errorMessage)
                  /\ jobs' = [jobs EXCEPT ![j].pc = "ended"]
          ELSE \E again \in BOOLEAN : Caught(failed, j, "url", again)
    /\ JobFrame

\* the pipeline returns its listing
PipelineOk(j) ==
    /\ jobs[j].pc = "pipeline3"
    /\ importJobRuntime' =
           setImportRuntime(importJobRuntime, j,
               [status |-> "running", progress |-> 75, stage |-> "downloading_media"])
    /\ jobs' = [jobs EXCEPT ![j].pc = "importing"]
    /\ UNCHANGED importJobs
    /\ JobFrame

\* Math.floor of a positive double below 2^19
MathFloor(x) ==
    LET s == 0 - (M_BITS + L_BITS + x.exp)
    IN IF s > H_BITS THEN 0 ELSE x.h \div Pow2(s)

\* base + Math.floor((part / whole) * span) for 0 <= part <= whole
Portion(base, part, whole, span) ==
    base + (IF part = 0 THEN 0
            ELSE MathFloor(DoubleTimes(DoubleDiv(part, whole), span)))

\* a || b on numbers
OrElse(a, b) == IF a # 0 THEN a ELSE b

\* the progress callback the URL job gives to runPortfolioImportJob
UrlProgressPatch(runtime, j, update) ==
    LET counts == update.counts
        discovered == OrElse(counts.discovered, 1)   \* listings.length is 1
        processed == counts.processed
        mediaTotal == OrElse(counts.mediaTotal, discovered)
        mediaDownloaded == OrElse(counts.mediaDownloaded, processed)
        mapped ==
            IF Includes(update.stage, "parsing")
               THEN [stage |-> "parsing_listings",
                     progress |-> Portion(50, processed, discovered, 25)]
            ELSE IF Includes(update.stage, "downloading")
               THEN [stage |-> "downloading_media",
                     progress |-> Portion(75, mediaDownloaded, mediaTotal, 15)]
            ELSE IF update.stage = "saving"
               THEN [stage |-> "saving", progress |-> 95]
            ELSE IF update.stage = "done"
               THEN [stage |-> "done", progress |-> 100]
            ELSE [stage |-> update.stage, progress |-> update.progress]
    IN [status |-> "running",
        progress |-> Clamp(mapped.progress, 0, 100),
        stage |-> mapped.stage,
        counts |-> Merge(CountsOfJob(runtime, j),
                         [discovered |-> discovered, fetched |-> discovered,
                          parsed |-> processed])]

\* the progress callback the CSV job gives to runPortfolioImportJob
CsvProgressPatch(runtime, j, update) ==
    [status |-> "running", progress |-> update.progress, stage |-> update.stage,
     counts |-> Merge(CountsOfJob(runtime, j),
                      [k \in {c \in DOMAIN update.counts : update.counts[c] # 0} |->
                          update.counts[k]])]

\* updates runPortfolioImportJob can send
ImportUpdates ==
    { [stage |-> "parsing listings", progress |-> 40, counts |-> Counts4(2, 0, 0, 0)],
      [stage |-> "parsing listings", progress |-> 45, counts |-> Counts4(2, 1, 0, 0)],
      [stage |-> "downloading media", progress |-> 60, counts |-> Counts4(2, 1, 2, 1)],
      [stage |-> "saving", progress |-> 90, counts |-> Counts4(0, 0, 0, 0)],
      [stage |-> "done", progress |-> 100, counts |-> Counts4(2, 2, 0, 0)],
      [stage |-> "tagging", progress |-> 120, counts |-> Counts4(0, 0, 0, 0)] }

\* runPortfolioImportJob calls the progress callback
ImportProgress(j, update) ==
    /\ jobs[j].pc = "importing"
    /\ jobs[j].calls < MaxCallbacks
    /\ importJobRuntime' =
           setImportRuntime(importJobRuntime, j,
               IF jobs[j].kind = "url"
                  THEN UrlProgressPatch(importJobRuntime, j, update)
               ELSE CsvProgressPatch(importJobRuntime, j, update))
    /\ jobs' = [jobs EXCEPT ![j].calls = @ + 1]
    /\ UNCHANGED importJobs
    /\ JobFrame

\* runPortfolioImportJob resolves with the final status
ImportReturns(j, finalStatus) ==
    /\ jobs[j].pc = "importing"
    /\ importJobRuntime' =
           IF finalStatus = "done"
              THEN setImportRuntime(importJobRuntime, j,
                       [status |-> "done", progress |-> 100, stage |-> "done",
                        error |-> None])
           ELSE setImportRuntime(importJobRuntime, j,
                    [status |-> "failed", stage |-> "failed",
                     progress |-> ProgressOfJob(importJobRuntime, j, 90),
                     error |-> Some("All listings failed to import.")])
    /\ jobs' = [jobs EXCEPT ![j].pc = "ended"]
    /\ UNCHANGED importJobs
    /\ JobFrame

\* a catch that also runs for a task that has ended
JobThrows_Late(j, storageOk) ==
    /\ jobs[j].pc \in {"pipeline1", "importing", "ended"}
    /\ Caught(importJobRuntime, j, jobs[j].kind, storageOk)
    /\ JobFrame

\* the pipeline or the import rejects
JobThrows(j, storageOk) ==
    /\ jobs[j].pc \in {"pipeline1", "importing"}
    /\ Caught(importJobRuntime, j, jobs[j].kind, storageOk)
    /\ JobFrame

\* GET /api/import/status?jobId=j
GetImportStatus(j) ==
    /\ IF importJobs[j] = None
          THEN resp' = ErrorResp("import/status", 404)
       ELSE LET job == importJobs[j][1]
                runtime == importJobRuntime[j]
                progressFallback ==
                    IF job.status = "done" THEN 100
                    ELSE IF job.status = "failed"
                       THEN (IF ProgressOfJob(importJobRuntime, j, 0) < 99
                                THEN ProgressOfJob(importJobRuntime, j, 0) ELSE 99)
                    ELSE 0
            IN resp' = [NoResp EXCEPT
                          !.route = "import/status", !.status = 200,
                          !.job = Some(
                              [id |-> j,
                               status |-> IF runtime # None /\ runtime[1].status # ""
                                             THEN runtime[1].status ELSE job.status,
                               progress |-> ProgressOfJob(importJobRuntime, j,
                                                          progressFallback),
                               stage |-> IF runtime # None /\ runtime[1].stage # ""
                                            THEN runtime[1].stage
                                         ELSE IF job.status \in {"done", "failed"}
                                            THEN job.status ELSE job.status,
                               error |-> IF runtime # None /\ runtime[1].error # None
                                            THEN runtime[1].error ELSE job.error])]
    /\ UNCHANGED imports
    /\ ImportFrame

\* the job ids that crypto.randomUUID gives to the URL and the CSV imports
UrlJobIds == {1}

CsvJobIds == JobIds \ UrlJobIds

InitImport ==
    /\ InitServer
    /\ properties = ConcCatalog
    /\ InitWorkerIdle
    /\ InitImportsIdle
    /\ InitClientIdle
    /\ InitAuthIdle
    /\ InitMonitorReady

NextImport ==
    \/ \E j \in UrlJobIds, storageOk \in BOOLEAN : PostImportUrl(j, storageOk)
    \/ \E j \in CsvJobIds, storageOk \in BOOLEAN : PostImportCsv(j, storageOk)
    \/ \E j \in JobIds : StartJob(j)
    \/ \E j \in JobIds, k \in DOMAIN PIPELINE_UPDATES : PipelineProgress(j, k)
    \/ \E j \in JobIds, storageOk \in BOOLEAN : PipelineNotOk(j, storageOk)
    \/ \E j \in JobIds : PipelineOk(j)
    \/ \E j \in JobIds, update \in ImportUpdates : ImportProgress(j, update)
    \/ \E j \in JobIds, finalStatus \in {"done", "failed"} : ImportReturns(j, finalStatus)
    \/ \E j \in JobIds, storageOk \in BOOLEAN : JobThrows(j, storageOk)
    \/ \E j \in JobIds : GetImportStatus(j)

SpecImport == InitImport /\ [][NextImport]_vars

\* a step of the background task of job j other than a progress callback:
\* every call the task awaits returns or throws
TaskStep(j) ==
    \/ StartJob(j)
    \/ \E k \in DOMAIN PIPELINE_UPDATES : PipelineProgress(j, k)
    \/ \E storageOk \in BOOLEAN : PipelineNotOk(j, storageOk)
    \/ PipelineOk(j)
    \/ \E finalStatus \in {"done", "failed"} : ImportReturns(j, finalStatus)
    \/ \E storageOk \in BOOLEAN : JobThrows(j, storageOk)

\* the imports without status polls
NextTasks ==
    \/ \E j \in UrlJobIds, storageOk \in BOOLEAN : PostImportUrl(j, storageOk)
    \/ \E j \in CsvJobIds, storageOk \in BOOLEAN : PostImportCsv(j, storageOk)
    \/ \E j \in JobIds, update \in ImportUpdates : ImportProgress(j, update)
    \/ \E j \in JobIds : TaskStep(j)

SpecImportFair ==
    InitImport /\ [][NextTasks]_vars /\ \A j \in JobIds : WF_vars(TaskStep(j))

----------------------------------------------------------------------------
(* Properties of POST /api/buyer/swipe, one request at a time *)

LeadsOfPair(ls, buyerId, propertyId) ==
    {i \in 1..Len(ls) : ls[i].buyerId = Some(buyerId) /\ ls[i].propertyId = propertyId}

HasLead(ls, body) == LeadsOfPair(ls, body.buyerId, body.listingId) # {}

\* the request `body` is accepted (valid body, existing listing) and handled
\* by this step
Handles(body) ==
    /\ body.listingId \in DOMAIN properties
    /\ BuyerSwipe(body)

\* C1: at most one Lead exists per (buyer, listing) pair, and a swipe on a
\* pair that already has a Lead adds no Lead and no notification, leaves the
\* leads as they are and answers 200 with leadCreated = false, for every
\* action and score.
C1_OneLeadPerPair ==
    [][ /\ \A b \in Buyers, l \in ListingIds :
              Cardinality(LeadsOfPair(leads', b, l)) <= 1
        /\ \A body \in ValidBodies :
              (Handles(body) /\ HasLead(leads, body)) =>
                  /\ leads' = leads
                  /\ notifications' = notifications
                  /\ resp'.status = 200
                  /\ resp'.leadCreated = FALSE ]_vars

\* a pair with a Lead was swiped again by a request whose condition fired
C1_Witness ==
    /\ resp.status = 200 /\ resp.hadLead /\ ~resp.leadCreated
    /\ Cardinality(LeadsOfPair(leads, resp.buyerId, resp.listingId)) = 1
    /\ Len(swipeEvents) = 2

\* C2: for a pair without a Lead, a Lead is created exactly when the action is
\* save, or the action is like and matchScore >= 85; nope and skip never
\* create a Lead.
C2_LeadOnlyOnSaveOrLike ==
    [][ \A body \in ValidBodies :
          (Handles(body) /\ ~HasLead(leads, body)) =>
              (resp'.leadCreated <=>
                  \/ body.action = "save"
                  \/ body.action = "like" /\ resp'.matchScore >= 85) ]_vars

Unscoreable(listing) ==
    listing.vibeTag = "Unclassified" /\ listing.vibeVector = None /\ listing.vibeTop = <<>>

\* C5: for a listing tagged Unclassified without vibeVector and vibeTop,
\* getListingVector returns null, the request succeeds, and no Lead and no
\* notification is created for any action, save included.
C5_NoLeadOnUnclassified ==
    [][ \A body \in ValidBodies :
          (Handles(body) /\ Unscoreable(properties[body.listingId])) =>
              /\ getListingVector(Some(properties[body.listingId])) = None
              /\ resp'.status = 200
              /\ leads' = leads
              /\ notifications' = notifications ]_vars

\* C6: whenever the creation condition fires on a pair without a Lead, the
\* request succeeds and appends a Lead; with a top buyer archetype that has a
\* definition its talk track names that archetype and its avoid list is the
\* archetype's forbidden changes, otherwise the talk track is the generic one
\* (naming no archetype) and the avoid list is empty.
C6_LeadAlwaysProduced ==
    [][ \A body \in ValidBodies :
          (/\ Handles(body)
           /\ ~HasLead(leads, body)
           /\ (body.action = "save" \/ resp'.matchScore >= 85)) =>
              LET lead == leads'[Len(leads')]
                  top == lead.topBuyerVibes
              IN /\ resp'.status = 200 /\ resp'.leadCreated
                 /\ Len(leads') = Len(leads) + 1
                 /\ lead.buyerId = Some(body.buyerId) /\ lead.propertyId = body.listingId
                 /\ top = resp'.buyerTopVibes
                 /\ IF Len(top) > 0 /\ top[1].vibe \in DOMAIN VIBE_DEFINITIONS
                       THEN /\ lead.talkTrack.names = Some(top[1].vibe)
                            /\ lead.avoidList = VIBE_DEFINITIONS[top[1].vibe].forbiddenChanges
                    ELSE /\ lead.talkTrack.names = None
                         /\ lead.avoidList = <<>> ]_vars

\* a Lead with the generic talk track next to one naming an archetype
C6_Witness ==
    \E i, j \in 1..Len(leads) :
        /\ leads[i].talkTrack.names = None /\ leads[i].topBuyerVibes = <<>>
        /\ leads[j].talkTrack.names # None /\ leads[j].avoidList # <<>>

----------------------------------------------------------------------------
(* Properties of POST /api/buyer/swipe under concurrent requests *)

NotificationsOfPair(ns, buyerId, propertyId) ==
    {i \in 1..Len(ns) : ns[i].buyerId = buyerId /\ ns[i].propertyId = propertyId}

\* C4: when requests for the same (buyer, listing) pair that satisfy the lead
\* condition are processed concurrently, one Lead survives for the pair and
\* one notification is emitted.
C4_OneLeadUnderRace ==
    \A b \in Buyers, l \in ListingIds :
        /\ Cardinality(LeadsOfPair(leads, b, l)) <= 1
        /\ Cardinality(NotificationsOfPair(notifications, b, l)) <= 1

----------------------------------------------------------------------------
(* Properties of aggregation and of the legacy session path *)

Permute(seq, p) == [i \in 1..Len(seq) |-> seq[p[i]]]

ProfileOfEvents(events) ==
    computeBuyerVibeVector(BuyerVibeEvents(events, properties))

\* C7: for every permutation of the same events, the buyer profile (vector
\* and top vibes) and the /api/user/stats result (counts, percentages,
\* ordered vibePercentages, topVibe) are identical.
C7_OrderIndependent ==
    /\ \A b \in Buyers :
          LET events == getSwipeEventsByBuyer(swipeEvents, b)
          IN \A p \in Permutations(1..Len(events)) :
                ProfileOfEvents(Permute(events, p)) = ProfileOfEvents(events)
    /\ LET rightSwipes == getRightSwipesBySession(swipes, SESSION_ID)
       IN \A p \in Permutations(1..Len(rightSwipes)) :
             UserStats(Permute(rightSwipes, p), properties)
                 = UserStats(rightSwipes, properties)

VibeIndex(v) == CHOOSE i \in 1..Len(VIBES) : VIBES[i] = v

\* weights descending, equal weights in enumeration order
RankedList(list, weights) ==
    \A k \in 1..(Len(list) - 1) :
        \/ weights[k] > weights[k + 1]
        \/ /\ weights[k] = weights[k + 1]
           /\ VibeIndex(list[k].vibe) < VibeIndex(list[k + 1].vibe)

Counts(list) == [k \in 1..Len(list) |-> list[k].count]

Scores(list) == [k \in 1..Len(list) |-> list[k].score]

\* C8: a top-vibes list is sorted by weight (count) descending with equal
\* weights in the archetype enumeration order, and the top vibe used
\* downstream is its first element.
C8_TopVibesRanked ==
    /\ (resp.route = "user/stats" /\ resp.status = 200) =>
          /\ RankedList(resp.vibePercentages, Counts(resp.vibePercentages))
          /\ resp.topVibe = FirstVibe(resp.vibePercentages)
    /\ (resp.route \in {"buyer/swipe", "buyer/profile"} /\ resp.status = 200) =>
          RankedList(resp.buyerTopVibes, Scores(resp.buyerTopVibes))
    /\ \A i \in 1..Len(leads) :
          /\ RankedList(leads[i].topBuyerVibes, Scores(leads[i].topBuyerVibes))
          /\ leads[i].talkTrack.names = FirstVibe(leads[i].topBuyerVibes)

ZeroVector == [v \in VibeSet |-> 0]

\* C9: a buyer without events gets 200 with the all-zero vector and no top
\* vibes from GET /api/buyer/profile; every score computed by a swipe, a zero
\* profile's included, is an integer in 0..100; with a missing or empty
\* session taste profile GET /api/properties answers 200 without taste
\* scores, no taste score is ever the result of 0 / 0, and POST /api/swipe
\* answers 200.
C9_ColdStart ==
    [][ /\ \A b \in Buyers :
              (/\ resp'.route = "buyer/profile"
               /\ getSwipeEventsByBuyer(swipeEvents, b) = <<>>
               /\ GetBuyerProfile(b)) =>
                  /\ resp'.status = 200
                  /\ resp'.vector = Some(ZeroVector)
                  /\ resp'.buyerTopVibes = <<>>
        /\ \A body \in ValidBodies :
              (resp'.route = "buyer/swipe" /\ Handles(body)) =>
                  /\ resp'.status = 200
                  /\ resp'.matchScore \in 0..100
                  /\ resp'.buyerTopVibes = <<>> => resp'.matchScore = 0
        /\ (resp'.route = "properties" /\ GetProperties) =>
              /\ resp'.status = 200
              /\ \A k \in 1..Len(resp'.tasteScores) :
                    /\ resp'.tasteScores[k].tasteScore # None
                    /\ resp'.tasteScores[k].tasteScore[1] \in 0..100
              /\ (session.tasteProfile = None \/ DOMAIN session.tasteProfile[1] = {})
                    => ~resp'.scored
        /\ \A body \in ColdLegacyBodies :
              (/\ resp'.route = "swipe"
               /\ body.propertyId \in DOMAIN properties
               /\ session.tasteProfile = None
               /\ LegacySwipe(body)) => resp'.status = 200 ]_vars

\* the profile of the buyer who never swiped is read while the other buyer
\* has events and the session has swiped without building a taste profile
C9_Witness ==
    /\ resp.route = "buyer/profile" /\ resp.status = 200 /\ resp.buyerId = "b2"
    /\ resp.vector = Some(ZeroVector)
    /\ swipeEvents # <<>>
    /\ swipes # <<>> /\ session.tasteProfile = None

----------------------------------------------------------------------------
(* Properties of the listing vector *)

\* C10: getListingVector returns the stored breakdown when there is one,
\* else the one-hot vector over the 8 archetypes of the listing's top
\* archetype (vibeTop[0] if known, else vibeTag if known), else null; and
\* Unclassified is never a key of the result.
C10_ListingVectorShape ==
    vecResult # None =>
        LET p == vecResult[1].of
            result == vecResult[1].vector
            top == IF Len(p.vibeTop) > 0 /\ p.vibeTop[1].vibe \in VibeSet
                      THEN Some(p.vibeTop[1].vibe)
                   ELSE IF p.vibeTag \in VibeSet THEN Some(p.vibeTag)
                   ELSE None
        IN /\ IF p.vibeVector # None THEN result = p.vibeVector
              ELSE IF top # None
                 THEN /\ result # None
                      /\ DOMAIN result[1] = VibeSet
                      /\ \A v \in VibeSet :
                            result[1][v] = (IF v = top[1] THEN 100 ELSE 0)
              ELSE result = None
           /\ result # None => "Unclassified" \notin DOMAIN result[1]

\* C11: every weight of a vector produced by getListingVector lies in [0,1],
\* for any stored listing record.
C11_ListingWeightsInRange ==
    (vecResult # None /\ vecResult[1].vector # None) =>
        \A v \in DOMAIN vecResult[1].vector[1] :
            /\ vecResult[1].vector[1][v] >= 0
            /\ vecResult[1].vector[1][v] <= One

----------------------------------------------------------------------------
(* Properties of the legacy count profile *)

\* C12: for an anonymous session with a non-empty taste profile GET
\* /api/properties gives every listing tasteScore = round(100 * count[vibeTag]
\* / sum of all counts) when vibeTag is not Unclassified and has a positive
\* count, and 0 otherwise, an integer in 0..100; a session with an agent
\* login or an empty profile gets no taste scoring.
C12_TasteScoreFormula ==
    (resp.route = "properties") =>
        IF /\ session.agentId = None
           /\ session.tasteProfile # None
           /\ DOMAIN session.tasteProfile[1] # {}
           THEN LET profile == session.tasteProfile[1]
                    total == SumOver(profile, DOMAIN profile)
                    expected(tag) ==
                        IF tag \notin {"", "Unclassified"} /\ tag \in DOMAIN profile
                              /\ profile[tag] > 0
                           THEN RoundDiv(100 * profile[tag], total)
                        ELSE 0
                IN /\ resp.status = 200 /\ resp.scored
                   /\ Len(resp.tasteScores) = Cardinality(DOMAIN properties)
                   /\ \A k \in 1..Len(resp.tasteScores) :
                         LET row == resp.tasteScores[k]
                         IN /\ row.tasteScore = Some(expected(properties[row.id].vibeTag))
                            /\ row.tasteScore[1] \in 0..100
        ELSE resp.status = 200 /\ ~resp.scored

\* the taste score GET /api/properties shows for a listing tagged `tag`, 0
\* when the session has no profile
ShownScore(tasteProfile, tag) ==
    IF tasteProfile = None THEN 0
    ELSE LET score == TasteScore(tasteProfile[1], tag)
         IN IF score = None THEN 0 ELSE score[1]

ListingTags == VibeSet \cup {"Unclassified"}

\* C13: one more qualifying right swipe on a listing tagged T never decreases
\* the taste score of a T-tagged listing and never increases the taste score
\* of a listing tagged otherwise.
C13_TasteScoreMonotone ==
    [][\A body \in ColdLegacyBodies :
          (/\ resp'.route = "swipe" /\ resp'.status = 200
           /\ body.direction = "right"
           /\ CountsAsTag(PropertyOf(properties, body.propertyId))
           /\ LegacySwipe(body)) =>
              LET T == properties[body.propertyId].vibeTag
              IN \A tag \in ListingTags :
                    IF tag = T
                       THEN ShownScore(session'.tasteProfile, tag)
                                >= ShownScore(session.tasteProfile, tag)
                    ELSE ShownScore(session'.tasteProfile, tag)
                                <= ShownScore(session.tasteProfile, tag)]_vars

\* a qualifying right swipe has been counted on top of a long history that
\* holds both tags
C13_Witness ==
    /\ resp.route = "swipe" /\ resp.status = 200 /\ resp.action = "right"
    /\ started > 0
    /\ session.tasteProfile # None
    /\ Cardinality(DOMAIN session.tasteProfile[1]) = 2
    /\ SumOver(session.tasteProfile[1], DOMAIN session.tasteProfile[1]) > 23

\* accepted right swipes stored for listings tagged T
RightSwipesOn(T) ==
    Cardinality({i \in 1..Len(swipes) :
                    /\ swipes[i].direction = "right"
                    /\ properties[swipes[i].propertyId].vibeTag = T})

C15_IncrementIsReadModifyWrite ==
    [][ /\ \A r \in Slots :
              (/\ reqs[r].pc \in {"createSwipe", "createNotification"}
               /\ reqs'[r].pc = "idle"
               /\ reqs[r].body[1].direction = "right"
               /\ reqs[r].listing[1].vibeTag \in VibeSet) =>
                  LET T == reqs[r].listing[1].vibeTag
                  IN /\ CountOf(session'.tasteProfile, T)
                          = CountOf(reqs[r].loaded[1].tasteProfile, T) + 1
                     /\ \A U \in VibeSet \ {T} :
                          CountOf(session'.tasteProfile, U)
                            = CountOf(reqs[r].loaded[1].tasteProfile, U)
        /\ \A T \in VibeSet : CountOf(session'.tasteProfile, T) <= RightSwipesOn(T)' ]_vars

\* two right swipes on listing 1 are stored, both requests have answered,
\* and the stored counter of its archetype is 1
C15_Witness ==
    /\ \A r \in Slots : reqs[r].pc = "idle"
    /\ Len(swipes) = 2
    /\ \A i \in 1..2 : swipes[i].propertyId = 1 /\ swipes[i].direction = "right"
    /\ CountOf(session.tasteProfile, properties[1].vibeTag) = 1

----------------------------------------------------------------------------
(* Properties of the buyer event log *)

\* what a read of the buyer's profile returns in the current state
ProfileOfBuyer(b) ==
    ProfileOfEvents(getSwipeEventsByBuyer(swipeEvents, b))

\* C16: a buyer's profile is a function of that buyer's event log alone: as
\* long as no swipe event of the buyer is appended, every read of the profile
\* returns the same vector and top vibes, whatever else happens in between
\* (other buyers' swipes, listing retag, update or delete).
C16_ProfileFollowsEventLog ==
    [][\A b \in Buyers :
          getSwipeEventsByBuyer(swipeEvents', b) = getSwipeEventsByBuyer(swipeEvents, b)
              => ProfileOfBuyer(b)' = ProfileOfBuyer(b)]_vars

\* C17: the buyer event log is append-only: every accepted POST
\* /api/buyer/swipe appends exactly one event carrying the request's buyerId,
\* listingId, action and dwellMs, whether or not a Lead results; every other
\* step leaves the log as it is, so no stored event is modified or removed.
C17_EventLogAppendOnly ==
    [][ LET accepted == resp'.route = "buyer/swipe" /\ resp'.status = 200
        IN /\ \A body \in DriftBodies :
                 (accepted /\ Handles(body)) =>
                     /\ Len(swipeEvents') = Len(swipeEvents) + 1
                     /\ swipeEvents'[Len(swipeEvents')].buyerId = body.buyerId
                     /\ swipeEvents'[Len(swipeEvents')].listingId = body.listingId
                     /\ swipeEvents'[Len(swipeEvents')].action = body.action
                     /\ swipeEvents'[Len(swipeEvents')].dwellMs = body.dwellMs
           /\ ~accepted => swipeEvents' = swipeEvents
           /\ SubSeq(swipeEvents', 1, Len(swipeEvents)) = swipeEvents ]_vars

\* two events are stored, one with a dwell time, none made a Lead, and the
\* listing of the first has been deleted since
C17_Witness ==
    /\ Len(swipeEvents) = 2
    /\ swipeEvents[1].listingId = 1 /\ 1 \notin DOMAIN properties
    /\ swipeEvents[2].dwellMs > 0
    /\ leads = <<>>

\* C18: a malformed POST /api/buyer/swipe (dwellMs negative, not an integer
\* or above 3,600,000; an action outside like, nope, save, skip; an empty
\* buyerId; a listingId that is not positive) gets 400 and a well-formed one
\* for an unknown listing gets 404, and in both cases buyers, swipe events,
\* leads and notifications are left unchanged.
C18_RejectedAtTheBoundary ==
    [][\A body \in SwipeBodies :
          (resp'.route = "buyer/swipe" /\ BuyerSwipe(body)) =>
              LET malformed ==
                      \/ body.dwellMs < 0
                      \/ body.dwellMsFraction # 0
                      \/ body.dwellMs > 3600000
                      \/ body.action \notin {"like", "nope", "save", "skip"}
                      \/ body.buyerId = ""
                      \/ body.listingId <= 0
                  unknown == body.listingId \notin DOMAIN properties
              IN /\ resp'.status = (IF malformed THEN 400
                                    ELSE IF unknown THEN 404 ELSE 200)
                 /\ (malformed \/ unknown) =>
                       UNCHANGED <<buyers, swipeEvents, leads, notifications>>]_vars

\* a request is refused with 400 after a swipe that made a Lead
C18_Witness ==
    /\ resp.route = "buyer/swipe" /\ resp.status = 400
    /\ swipeEvents # <<>> /\ leads # <<>>

\* C19: POST /api/swipe creates a notification for the property's agent
\* exactly when the direction is right and the match score is above 85; its
\* priority is critical iff the score is above 95 and high otherwise; the
\* hot-lead email is sent iff the priority is critical; a left swipe creates
\* neither, whatever the score.
C19_LegacyNotificationThresholds ==
    [][\A body \in LegacyBodies :
          (resp'.route = "swipe" /\ LegacySwipe(body)) =>
              IF /\ resp'.status = 200
                 /\ body.direction = "right"
                 /\ body.matchScore > 85
                 THEN LET created == notifications'[Len(notifications')]
                      IN /\ Len(notifications') = Len(notifications) + 1
                         /\ SubSeq(notifications', 1, Len(notifications)) = notifications
                         /\ created.recipientId = properties[body.propertyId].agentId
                         /\ created.priority =
                               (IF body.matchScore > 95 THEN "critical" ELSE "high")
                         /\ resp'.notified = Some(created.priority)
                         /\ resp'.emailed = (created.priority = "critical")
              ELSE /\ notifications' = notifications
                   /\ resp'.notified = None
                   /\ ~resp'.emailed]_vars

\* a right swipe at exactly 95 has notified with priority high and no email
C19_Witness ==
    /\ resp.route = "swipe" /\ resp.status = 200 /\ resp.action = "right"
    /\ resp.matchScore = 95
    /\ resp.notified = Some("high") /\ ~resp.emailed
    /\ notifications # <<>>

----------------------------------------------------------------------------
(* Consumer page: the onboarding wizard and the match score of a card *)

ClientFrame == UNCHANGED <<server, worker, imports, auth, monitor>>

LIFESTYLE_TAGS ==
    <<"Natural Light", "Remote Ready", "Chef Kitchen", "Fenced Yard",
      "HOA Free", "Smart Home", "Quiet Street">>

DIGITS == "0123456789"

IsDigit(ch) == \E i \in 1..Len(DIGITS) : SubSeq(DIGITS, i, i) = ch

DigitOf(ch) == (CHOOSE i \in 1..Len(DIGITS) : SubSeq(DIGITS, i, i) = ch) - 1

\* str.replace("+", ""): the first "+" is taken out
RECURSIVE RemovePlus(_)
RemovePlus(str) ==
    IF Len(str) = 0 THEN str
    ELSE IF SubSeq(str, 1, 1) = "+" THEN SubSeq(str, 2, Len(str))
    ELSE SubSeq(str, 1, 1) \o RemovePlus(SubSeq(str, 2, Len(str)))

\* the value of the digits that str starts with, after `sofar`
RECURSIVE ParseDigits(_, _)
ParseDigits(str, sofar) ==
    IF Len(str) = 0 \/ ~IsDigit(SubSeq(str, 1, 1)) THEN sofar
    ELSE ParseDigits(SubSeq(str, 2, Len(str)),
                     10 * sofar + DigitOf(SubSeq(str, 1, 1)))

\* parseInt(str, 10) of an unsigned string: NaN is None
ParseInt(str) ==
    IF Len(str) = 0 \/ ~IsDigit(SubSeq(str, 1, 1)) THEN None
    ELSE Some(ParseDigits(str, 0))

BedroomTarget(bedrooms) ==
    IF bedrooms = "Studio" THEN Some(0) ELSE ParseInt(RemovePlus(bedrooms))

VIBE_POINTS == 30

BEDROOM_POINTS == 30

PRICE_POINTS == 30

NEAR_POINTS == 15

BONUS_POINTS == 5

\* each must-have weighs more than a near miss
MUST_HAVE_POINTS_Twenty == NEAR_POINTS + BONUS_POINTS

MUST_HAVE_POINTS == 10

\* the elements of seq that are in set
Matching(seq, set) == SelectSeq(seq, LAMBDA t : t \in set)

\* computeMatchScore(property, filters); prices and budgets are whole
\* dollars, for which diff < 0.2 is 5 * (budgetMin - price) < budgetMin and
\* price < budgetMax * 0.9 is 10 * price < 9 * budgetMax
computeMatchScore(property, f) ==
    IF f = None THEN 0
    ELSE
      LET fs == f[1]
          vibeChosen == fs.vibe # "" /\ fs.vibe # "all"
          bedroomTarget == BedroomTarget(fs.bedrooms)
          sameBedrooms == bedroomTarget # None /\ property.bedrooms = bedroomTarget[1]
          nextBedrooms ==
              /\ bedroomTarget # None
              /\ property.bedrooms - bedroomTarget[1] \in {-1, 1}
          inBudget ==
              /\ property.price >= fs.budgetMin
              /\ fs.budgetMax # 0 => property.price <= fs.budgetMax
          justBelow ==
              /\ property.price < fs.budgetMin
              /\ 5 * (fs.budgetMin - property.price) < OrElse(fs.budgetMin, 1)
          mustHaveMatches == Len(Matching(fs.mustHaves, property.tags))
          underBudget == fs.budgetMax # 0 /\ 10 * property.price < 9 * fs.budgetMax
          score ==
              (IF vibeChosen /\ property.vibe = fs.vibe THEN VIBE_POINTS ELSE 0)
              + (IF sameBedrooms THEN BEDROOM_POINTS
                 ELSE IF nextBedrooms THEN NEAR_POINTS ELSE 0)
              + (IF inBudget THEN PRICE_POINTS
                 ELSE IF justBelow THEN NEAR_POINTS ELSE 0)
              + mustHaveMatches * MUST_HAVE_POINTS
              + (IF underBudget THEN BONUS_POINTS ELSE 0)
              + (IF sameBedrooms THEN BONUS_POINTS ELSE 0)
          maxScore ==
              (IF vibeChosen THEN VIBE_POINTS ELSE 0)
              + BEDROOM_POINTS + PRICE_POINTS
              + Len(fs.mustHaves) * MUST_HAVE_POINTS
              + BONUS_POINTS + BONUS_POINTS
      IN IF score = 0 THEN 0 ELSE Percent(score, maxScore)

\* SwipeCard: the card of a listing with its match score
RenderCard(property) ==
    /\ card' = Some([property |-> property,
                     matchScore |-> computeMatchScore(property, filters)])
    /\ UNCHANGED <<wizardData, filters>>
    /\ ClientFrame

\* the first n lifestyle tags
FirstTags(n) == SubSeq(LIFESTYLE_TAGS, 1, n)

Range(seq) == {seq[i] : i \in DOMAIN seq}

\* filters a visitor can leave the wizard with
FilterChoices ==
    { [budgetMin |-> b[1], budgetMax |-> b[2], bedrooms |-> beds, vibe |-> v,
       mustHaves |-> FirstTags(m), dealBreakers |-> <<>>] :
        b \in {<<100000, 10000000>>, <<500000, 1000000>>},
        beds \in {"Studio", "2", "3+"},
        v \in {"all", "Monarch"},
        m \in 0..Len(LIFESTYLE_TAGS) }

\* listings the page can show
ShownProperties ==
    { [vibe |-> v, bedrooms |-> beds, price |-> price, tags |-> tags] :
        v \in {"Monarch", "Purist"},
        beds \in {0, 2, 3},
        price \in {400000, 450000, 899999, 2000000},
        tags \in {{}, Range(LIFESTYLE_TAGS)} }

InitMatch ==
    /\ InitServer
    /\ properties = ConcCatalog
    /\ InitWorkerIdle
    /\ InitImportsIdle
    /\ InitAuthIdle
    /\ InitMonitorReady
    /\ filters \in {None} \cup {Some(f) : f \in FilterChoices}
    /\ wizardData = IF filters = None THEN Some(InitialData) ELSE None
    /\ card = None

NextMatch == \E property \in ShownProperties : RenderCard(property)

SpecMatch == InitMatch /\ [][NextMatch]_vars

\* number of lifestyle tags the visitor toggles
MaxTags == 3

WizardTags == Range(FirstTags(MaxTags))

\* seq.filter(t => t !== tag)
Without(seq, tag) == SelectSeq(seq, LAMBDA t : t # tag)

\* mustHaves after a click on `tag`, computed from the rendered data
NextList(list, tag) ==
    IF tag \in Range(list) THEN Without(list, tag)
    ELSE Append(Without(list, tag), tag)

WizardFrame == UNCHANGED <<filters, card>> /\ ClientFrame

\* the click leaves the tag in the deal-breakers
ToggleMustHave_KeepsDealBreaker(tag) ==
    /\ wizardData # None
    /\ wizardData' =
          Some([wizardData[1] EXCEPT !.mustHaves = NextList(@, tag)])
    /\ WizardFrame

\* onClick of a must-have badge: `next` is computed from the data of the
\* last render, which is the current state, as React renders the update of
\* one click before it handles the next
ToggleMustHave(tag) ==
    /\ wizardData # None
    /\ LET next == NextList(wizardData[1].mustHaves, tag)
       IN wizardData' =
            Some([wizardData[1] EXCEPT !.mustHaves = next,
                                       !.dealBreakers = Without(@, tag)])
    /\ WizardFrame

\* onClick of a deal-breaker badge
ToggleDealBreaker(tag) ==
    /\ wizardData # None
    /\ LET next == NextList(wizardData[1].dealBreakers, tag)
       IN wizardData' =
            Some([wizardData[1] EXCEPT !.dealBreakers = next,
                                       !.mustHaves = Without(@, tag)])
    /\ WizardFrame

\* the last step's button: onComplete(data) sets the filters and closes the
\* wizard
Complete ==
    /\ wizardData # None
    /\ filters' = Some(wizardData[1])
    /\ wizardData' = None
    /\ UNCHANGED card
    /\ ClientFrame

\* button-adjust-filters: the wizard opens again, with its initial data
AdjustFilters ==
    /\ wizardData = None
    /\ filters # None
    /\ wizardData' = Some(InitialData)
    /\ UNCHANGED <<filters, card>>
    /\ ClientFrame

\* button-reset-filters: without filters the page shows the wizard
resetFilters ==
    /\ wizardData = None
    /\ filters # None
    /\ filters' = None
    /\ wizardData' = Some(InitialData)
    /\ UNCHANGED card
    /\ ClientFrame

\* the deck leaves out a listing that has one of the deal-breakers
Excluded(tags, f) == \E tag \in Range(f.dealBreakers) : tag \in tags

\* the must-haves that add to the score of a listing
Boosts(tags, f) == Range(Matching(f.mustHaves, tags))

\* listings of the deck, with none and with all of the lifestyle tags
DeckProperties ==
    {p \in ShownProperties :
        p.vibe = "Monarch" /\ p.bedrooms = 2 /\ p.price = 450000}

\* the deck, shown once the wizard is closed, renders a listing that the
\* deal-breaker filter lets through
ShowCard(property) ==
    /\ wizardData = None
    /\ filters # None
    /\ ~Excluded(property.tags, filters[1])
    /\ RenderCard(property)

InitWizard ==
    /\ InitServer
    /\ properties = ConcCatalog
    /\ InitApart

NextWizard ==
    \/ \E tag \in WizardTags : ToggleMustHave(tag)
    \/ \E tag \in WizardTags : ToggleDealBreaker(tag)
    \/ Complete
    \/ AdjustFilters
    \/ resetFilters
    \/ \E property \in DeckProperties : ShowCard(property)

SpecWizard == InitWizard /\ [][NextWizard]_vars

----------------------------------------------------------------------------
(* Email verification and signup *)

\* the routes answer in resp and leave the rest of the server alone
AuthFrame ==
    UNCHANGED <<properties, buyers, swipeEvents, leads, notifications, reqs,
                started, session, swipes, vecResult, worker, imports, client,
                monitor>>

Emails == {"a@x.io", "b@x.io"}

\* String(Math.floor(100000 + Math.random() * 900000)): two of the codes
Codes == {"123456", "654321"}

\* a code expires ten minutes after it was sent; the clock counts in units
\* of ten minutes
CODE_TTL == 1

\* last tick of the clock
MaxNow == 2

\* number of verification codes sent
MaxCodes == 1

\* the session a verify-code request comes from
SessionOf(v) == IF v = 1 THEN "s1" ELSE "s2"

\* POST /api/auth/send-verification: the row is inserted once the email
\* was sent
SendVerification(email, code, sent) ==
    /\ Len(verificationCodes) < MaxCodes
    /\ IF sent
          THEN /\ verificationCodes' =
                    Append(verificationCodes,
                           [email |-> email, code |-> code, used |-> FALSE,
                            expiresAt |-> now + CODE_TTL])
               /\ resp' = ErrorResp("auth/send-verification", 200)
          ELSE /\ resp' = ErrorResp("auth/send-verification", 503)
               /\ UNCHANGED verificationCodes
    /\ UNCHANGED <<emailVerified, verifyReqs, agents, now>>
    /\ AuthFrame

\* db.select().from(verificationCodes).where(and(eq email, eq code,
\* eq(used, false), gt(expiresAt, new Date()))): the ids of the rows
MatchingCodes(rows, email, code, time) ==
    {id \in DOMAIN rows :
        /\ rows[id].email = email
        /\ rows[id].code = code
        /\ rows[id].used = FALSE
        /\ rows[id].expiresAt > time}

\* POST /api/auth/verify-code up to the answer of the select: 400 when no
\* row matches, else the handler goes on with records[0], any of the rows as
\* the query has no order
VerifySelect(v, email, code) ==
    /\ verifyReqs[v].pc = "none"
    /\ LET found == MatchingCodes(verificationCodes, email, code, now)
           request == [IdleVerify EXCEPT !.session = SessionOf(v),
                                         !.email = email, !.code = code]
       IN IF found = {}
             THEN /\ verifyReqs' = [verifyReqs EXCEPT
                        ![v] = [request EXCEPT !.pc = "done", !.status = 400]]
                  /\ resp' = ErrorResp("auth/verify-code", 400)
             ELSE /\ \E id \in found :
                        verifyReqs' = [verifyReqs EXCEPT
                            ![v] = [request EXCEPT !.pc = "selected",
                                                   !.records = <<id>>]]
                  /\ UNCHANGED resp
    /\ UNCHANGED <<verificationCodes, emailVerified, agents, now>>
    /\ AuthFrame

\* the rest of the handler: the row is marked used, the session gets
\* emailVerified and the request is answered
VerifyUpdate(v) ==
    /\ verifyReqs[v].pc = "selected"
    /\ verificationCodes' =
          [verificationCodes EXCEPT ![verifyReqs[v].records[1]].used = TRUE]
    /\ emailVerified' =
          [emailVerified EXCEPT ![verifyReqs[v].session] = Some(verifyReqs[v].email)]
    /\ verifyReqs' = [verifyReqs EXCEPT ![v].pc = "done", ![v].status = 200]
    /\ resp' = ErrorResp("auth/verify-code", 200)
    /\ UNCHANGED <<agents, now>>
    /\ AuthFrame

\* POST /api/auth/signup
Signup(s, email, inviteOk) ==
    /\ IF emailVerified[s] # Some(email)
          THEN resp' = ErrorResp("auth/signup", 403) /\ UNCHANGED agents
       ELSE IF email \in agents
          THEN resp' = ErrorResp("auth/signup", 409) /\ UNCHANGED agents
       ELSE IF ~inviteOk
          THEN resp' = ErrorResp("auth/signup", 400) /\ UNCHANGED agents
       ELSE /\ agents' = agents \cup {email}
            /\ resp' = ErrorResp("auth/signup", 201)
    /\ UNCHANGED <<verificationCodes, emailVerified, verifyReqs, now>>
    /\ AuthFrame

\* time passes
Tick ==
    /\ now < MaxNow
    /\ now' = now + 1
    /\ UNCHANGED <<verificationCodes, emailVerified, verifyReqs, agents, resp>>
    /\ AuthFrame

InitAuth ==
    /\ InitServer
    /\ properties = ConcCatalog
    /\ InitApart

NextAuth ==
    \/ \E email \in Emails, code \in Codes, sent \in BOOLEAN :
            SendVerification(email, code, sent)
    \/ \E v \in VerifyIds, email \in Emails, code \in Codes :
            VerifySelect(v, email, code)
    \/ \E v \in VerifyIds : VerifyUpdate(v)
    \/ \E s \in Sessions, email \in Emails, inviteOk \in BOOLEAN :
            Signup(s, email, inviteOk)
    \/ Tick

SpecAuth == InitAuth /\ [][NextAuth]_vars

----------------------------------------------------------------------------
(* DB readiness monitor and the /api gate *)

MonitorFrame ==
    UNCHANGED <<properties, buyers, swipeEvents, leads, notifications, reqs,
                started, session, swipes, vecResult, worker, imports, client,
                auth>>

NOT_CHECKED == "DB readiness not checked yet"

\* error.message of a rejected pool.query
CONNECTION_ERROR == "connect ECONNREFUSED"

AllTables == {REQUIRED_TABLES[i] : i \in DOMAIN REQUIRED_TABLES}

\* the conditions the database can be in
Databases ==
    {[up |-> up, tables |-> tables] :
        up \in BOOLEAN,
        tables \in {AllTables, AllTables \ {"leads"},
                    AllTables \ {"agents", "notifications"}}}

\* seq.join(", ")
RECURSIVE Join(_)
Join(seq) ==
    IF Len(seq) = 0 THEN ""
    ELSE IF Len(seq) = 1 THEN seq[1]
    ELSE seq[1] \o ", " \o Join(Tail(seq))

\* REQUIRED_TABLES.filter((tableName) => !found.has(tableName))
Missing(found) == SelectSeq(REQUIRED_TABLES, LAMBDA t : t \notin found)

\* the reason is recorded and ready stays as it is
setNotReady_KeepsReady(reason) == [ready |-> ready, lastError |-> Some(reason)]

\* setNotReady(reason): the values of ready and lastError after it
setNotReady(reason) == [ready |-> FALSE, lastError |-> Some(reason)]

\* ready and lastError become those of m, and the call c resolves
Resolve(c, m, returned) ==
    /\ ready' = m.ready
    /\ lastError' = m.lastError
    /\ checks' = [checks EXCEPT ![c] = [pc |-> "none", returned |-> Some(returned)]]

\* runCheck of the monitor, or trySeed: checkDbReadiness() is called
StartCheck(c) ==
    /\ checks[c].pc = "none"
    /\ checks' = [checks EXCEPT ![c].pc = "select1"]
    /\ UNCHANGED <<ready, lastError, database, resp>>
    /\ MonitorFrame

\* await pool.query("select 1") returns or throws into the catch
SelectOne(c) ==
    /\ checks[c].pc = "select1"
    /\ IF database.up
          THEN /\ checks' = [checks EXCEPT ![c].pc = "tables"]
               /\ UNCHANGED <<ready, lastError>>
          ELSE Resolve(c, setNotReady(CONNECTION_ERROR), FALSE)
    /\ UNCHANGED <<database, resp>>
    /\ MonitorFrame

\* the query of information_schema.tables returns or throws, and the rest
\* of checkDbReadiness runs
QueryTables(c) ==
    /\ checks[c].pc = "tables"
    /\ IF ~database.up
          THEN Resolve(c, setNotReady(CONNECTION_ERROR), FALSE)
       ELSE LET missing == Missing(database.tables)
            IN IF Len(missing) > 0
                  THEN Resolve(c, setNotReady("missing tables: " \o Join(missing)),
                               FALSE)
                  ELSE Resolve(c, [ready |-> TRUE, lastError |-> None], TRUE)
    /\ UNCHANGED <<database, resp>>
    /\ MonitorFrame

\* the database goes down, comes back, loses or regains tables
DatabaseChanges(d) ==
    /\ d # database
    /\ database' = d
    /\ UNCHANGED <<ready, lastError, checks, resp>>
    /\ MonitorFrame

\* a request for a route registered after app.use("/api", ...), here
\* GET /api/import/status: the gate calls next() or answers 503
ApiRequest(j) ==
    IF ready
       THEN GetImportStatus(j)
    ELSE /\ resp' = [ErrorResp("api", 503) EXCEPT !.details = lastError]
         /\ UNCHANGED <<ready, lastError, database, checks>>
         /\ UNCHANGED <<importJobRuntime, importJobs, jobs>>
         /\ MonitorFrame

\* GET /healthz, registered before every other middleware
Healthz ==
    /\ resp' = ErrorResp("healthz", 200)
    /\ UNCHANGED <<ready, lastError, database, checks>>
    /\ UNCHANGED <<importJobRuntime, importJobs, jobs>>
    /\ MonitorFrame

\* the module as loaded: not ready, no check made yet
InitMonitor ==
    /\ InitServer
    /\ properties = ConcCatalog
    /\ InitWorkerIdle
    /\ InitImportsIdle
    /\ InitClientIdle
    /\ InitAuthIdle
    /\ ready = FALSE
    /\ lastError = Some(NOT_CHECKED)
    /\ database \in Databases
    /\ checks = [c \in CheckIds |-> IdleCheck]

NextMonitor ==
    \/ \E c \in CheckIds : StartCheck(c)
    \/ \E c \in CheckIds : SelectOne(c)
    \/ \E c \in CheckIds : QueryTables(c)
    \/ \E d \in Databases : DatabaseChanges(d)
    \/ \E j \in JobIds : ApiRequest(j)
    \/ Healthz

SpecMonitor == InitMonitor /\ [][NextMonitor]_vars

----------------------------------------------------------------------------
(* Properties of listing maintenance *)

\* a PATCH, DELETE or retag request of session `sess` for listing `id`
Maintains(sess, id) ==
    \/ \E body \in TenancyPatchBodies : PatchProperty(sess, id, body)
    \/ \E t \in DriftTags : RetagProperty(sess, id, t)
    \/ DeleteProperty(sess, id)

\* C20: PATCH, DELETE and retag of a property by a logged-in agent who is not
\* the super admin and whose session organization differs from the
\* property's get 403 and leave the property unchanged; an unauthenticated
\* request gets 401 and changes nothing; the super admin, like an agent of
\* the property's organization, is not refused.
C20_OrganizationSilo ==
    [][\A sess \in AgentSessions, id \in ListingIds :
          Maintains(sess, id) =>
              IF sess.agentId = None
                 THEN resp'.status = 401 /\ properties' = properties
              ELSE IF id \notin DOMAIN properties
                 THEN resp'.status = 404 /\ properties' = properties
              ELSE IF /\ sess.agentEmail # SUPER_ADMIN_EMAIL
                      /\ properties[id].organizationId # sess.organizationId
                 THEN resp'.status = 403 /\ properties' = properties
              ELSE resp'.status = 200]_vars

\* a request has just been refused with 403 on a listing that was moved to
\* the other organization and retagged there, while the other listing is
\* still with its first organization
C20_Witness ==
    /\ resp.status = 403
    /\ resp.route \in {"properties/patch", "properties/delete", "properties/retag"}
    /\ DOMAIN properties = ListingIds
    /\ properties[1].organizationId = 2
    /\ properties[1].vibeTag = "Purist"
    /\ properties[2].organizationId = 1

----------------------------------------------------------------------------
(* Properties of the service worker *)

\* requests that are not GET, or whose path is under /api/
UncachedRequests ==
    { Request("GET", ORIGIN, "/api/properties"),
      Request("GET", ORIGIN, "/api/media/1.png"),
      Request("POST", ORIGIN, "/discover"),
      Request("POST", ORIGIN, "/upload/1.png") }

\* image and Google-Fonts GETs
CacheFirstRequests ==
    { Request("GET", ORIGIN, "/photos/1.PNG"),
      Request("GET", ORIGIN, "/icon-192.png"),
      Request("GET", "fonts.gstatic.com", "/s/inter.woff2") }

IsCached(url) == \E i \in DOMAIN caches : url \in DOMAIN caches[i]

\* the entries that a step wrote
Written ==
    { <<i, u>> \in (DOMAIN caches) \X {UrlOf(r) : r \in Requests} :
        /\ u \in DOMAIN caches'[i]
        /\ u \in DOMAIN caches[i] => caches'[i][u] # caches[i][u] }

----------------------------------------------------------------------------
(* Properties of the order of insert and read-back in POST /api/buyer/swipe *)

\* the buyer's rows of a log
RowsOf(log, buyerId) == SelectSeq(log, LAMBDA e : e.buyerId = buyerId)

\* C22: a handled swipe is in the log before the log is read back: the top
\* vibes and match score returned and the vector, top vibes and talk track
\* of a Lead it creates are those of the buyer's events with the current
\* action included; a cold buyer's first action, a save on a listing tagged
\* Naturalist, returns Naturalist as top buyer vibe and creates exactly one
\* Lead, whose talk track names Naturalist.
C22_ProfileIncludesCurrentAction ==
    [][\A body \in ValidBodies :
          (resp'.route = "buyer/swipe" /\ resp'.status = 200 /\ Handles(body)) =>
             LET rows == RowsOf(swipeEvents', body.buyerId)
                 profile == ProfileOfEvents(rows)
                 listing == properties[body.listingId]
                 lead == leads'[Len(leads')]
             IN /\ Len(rows) = Len(RowsOf(swipeEvents, body.buyerId)) + 1
                /\ rows[Len(rows)].action = body.action
                /\ rows[Len(rows)].listingId = body.listingId
                /\ resp'.buyerTopVibes = profile.topVibes
                /\ resp'.matchScore =
                       computeVectorMatchScore(profile.vector,
                                               getListingVector(Some(listing)))
                /\ resp'.leadCreated =>
                       /\ lead.buyerVector = profile.vector
                       /\ lead.topBuyerVibes = profile.topVibes
                       /\ lead.talkTrack = TalkTrackOf(FirstVibe(profile.topVibes))
                /\ (/\ RowsOf(swipeEvents, body.buyerId) = <<>>
                    /\ body.action = "save"
                    /\ listing = Tagged("Naturalist")) =>
                       /\ resp'.buyerTopVibes # <<>>
                       /\ resp'.buyerTopVibes[1].vibe = "Naturalist"
                       /\ Len(leads') = Len(leads) + 1
                       /\ lead.buyerId = Some(body.buyerId)
                       /\ lead.talkTrack.names = Some("Naturalist")]_vars

\* buyer b2, cold, has just saved the Naturalist listing after b1 acted
C22_Witness ==
    /\ resp.route = "buyer/swipe" /\ resp.status = 200
    /\ resp.buyerId = "b2" /\ resp.action = "save" /\ resp.leadCreated
    /\ Len(swipeEvents) = 2
    /\ swipeEvents[1].buyerId = "b1"
    /\ properties[resp.listingId] = Tagged("Naturalist")
    /\ resp.buyerTopVibes = <<[vibe |-> "Naturalist", score |-> 3]>>
    /\ leads[Len(leads)].talkTrack.names = Some("Naturalist")

----------------------------------------------------------------------------
(* Properties of POST /api/buyer/swipe under storage failures *)

\* C23: after a swipe of a pair has been answered 200, a retry included,
\* every Lead of the pair has its notification, even when an earlier request
\* of the pair failed in storage.createNotification after its Lead was stored.
C23_LeadAndNotificationTogether ==
    [][\A body \in ValidBodies :
          (resp'.route = "buyer/swipe" /\ resp'.status = 200 /\ Handles(body)) =>
             (getLeadByBuyerAndProperty(leads', body.buyerId, body.listingId) =>
                 NotificationsOfPair(notifications', body.buyerId, body.listingId) # {})]_vars

----------------------------------------------------------------------------
(* Properties of the portfolio imports *)

StatusMoves ==
    { <<"queued", "queued">>, <<"queued", "running">>, <<"running", "running">>,
      <<"running", "done">>, <<"running", "failed">>,
      <<"done", "done">>, <<"failed", "failed">> }

\* C24: the runtime status of an import job starts as queued and moves only
\* queued -> running -> done | failed, a done or failed status never changes
\* again, done comes with progress 100, stage done and no error, and failed
\* with stage failed and an error.
C24_JobStatusMoves ==
    [][\A j \in JobIds :
          LET old == importJobRuntime[j]
              new == importJobRuntime'[j]
          IN /\ old # None => new # None
             /\ (old = None /\ new # None) => new[1].status = "queued"
             /\ (old # None /\ new # None) =>
                    <<old[1].status, new[1].status>> \in StatusMoves
             /\ (new # None /\ new[1].status = "done") =>
                    /\ new[1].progress = 100
                    /\ new[1].stage = "done"
                    /\ new[1].error = None
             /\ (new # None /\ new[1].status = "failed") =>
                    /\ new[1].stage = "failed"
                    /\ new[1].error # None]_vars

\* the URL job is done and the CSV job has failed after it was running
C24_Witness ==
    /\ importJobRuntime[1] # None /\ importJobRuntime[1][1].status = "done"
    /\ importJobRuntime[2] # None /\ importJobRuntime[2][1].status = "failed"
    /\ importJobRuntime[2][1].progress > 30
    /\ jobs[1].pc = "ended" /\ jobs[2].pc = "ended"

\* C25: a job answered 202 is queued in the runtime map and in storage when
\* the response is sent, and when every awaited call of its task returns or
\* throws its runtime status becomes done or failed.
C25_JobsEnd ==
    /\ [][\A j \in JobIds :
             (resp'.status = 202 /\ resp'.job = Some([id |-> j]) /\ resp' # resp) =>
                 /\ importJobRuntime'[j] # None
                 /\ importJobRuntime'[j][1].status = "queued"
                 /\ importJobs'[j] # None
                 /\ importJobs'[j][1].status = "queued"]_vars
    /\ \A j \in JobIds :
          (jobs[j].pc = "scheduled") ~>
              (/\ importJobRuntime[j] # None
               /\ importJobRuntime[j][1].status \in {"done", "failed"})

\* both jobs were accepted and both have ended, one of them in the catch
C25_Witness ==
    /\ \A j \in JobIds :
          /\ importJobs[j] # None
          /\ jobs[j].pc = "ended"
          /\ importJobRuntime[j][1].status \in {"done", "failed"}
    /\ importJobRuntime[1][1].error = Some(URL_IMPORT_FAIL_MESSAGE)

\* C26: the runtime progress of a URL import job lies within 0..100 and
\* never decreases from one update to the next.
C26_ProgressNeverDecreases ==
    [][\A j \in UrlJobIds :
          LET old == importJobRuntime[j]
              new == importJobRuntime'[j]
          IN /\ new # None => new[1].progress \in 0..100
             /\ (old # None /\ new # None) => new[1].progress >= old[1].progress]_vars


\* C27: the match score of a card is a whole number from 0 to 100; it is 0
\* when no filters are in force; and a listing whose vibe is not the vibe
\* the visitor chose scores below 85, whatever else matches.
C27_MatchScoreRange ==
    card # None =>
        /\ card[1].matchScore \in 0..100
        /\ filters = None => card[1].matchScore = 0
        /\ (/\ filters # None
            /\ filters[1].vibe # "all"
            /\ card[1].property.vibe # filters[1].vibe)
           => card[1].matchScore < 85

\* a listing of another vibe that matches everything else, seven must-haves
\* included, is shown with a score of 82
C27_Witness ==
    /\ card # None
    /\ filters # None
    /\ filters[1].vibe = "Monarch"
    /\ card[1].property.vibe = "Purist"
    /\ Len(filters[1].mustHaves) = 7
    /\ card[1].matchScore = 82


IsSet(seq) == \A i, k \in DOMAIN seq : seq[i] = seq[k] => i = k

\* the two lists of f share no tag and repeat none
Separate(f) ==
    /\ Range(f.mustHaves) \cap Range(f.dealBreakers) = {}
    /\ IsSet(f.mustHaves)
    /\ IsSet(f.dealBreakers)
    /\ \A tags \in SUBSET WizardTags :
          \A tag \in Boosts(tags, f) : tag \notin Range(f.dealBreakers)

\* C30: whatever must-have and deal-breaker badges were clicked, no tag is
\* in both lists of the wizard and neither list repeats a tag; the same
\* holds for the filters the wizard hands over, so no must-have that adds
\* to a listing's score is also a deal-breaker.
C30_TagListsSeparate ==
    /\ wizardData # None => Separate(wizardData[1])
    /\ filters # None => Separate(filters[1])

\* a tag chosen as a must-have was clicked as a deal-breaker afterwards and
\* handed over with another must-have
C30_Witness ==
    /\ filters # None
    /\ filters[1].dealBreakers = <<"Natural Light">>
    /\ filters[1].mustHaves = <<"Remote Ready">>
    /\ wizardData # None
    /\ wizardData[1].mustHaves = <<"Chef Kitchen", "Natural Light">>
    /\ wizardData[1].dealBreakers = <<"Remote Ready">>


\* the verify-code requests answered 200 for the row `id`
Redeemed(id) ==
    {v \in VerifyIds :
        /\ verifyReqs[v].pc = "done"
        /\ verifyReqs[v].status = 200
        /\ verifyReqs[v].records = <<id>>}

\* C28: a verification code is redeemed at most once: of the verify-code
\* requests for one row of the table, at most one is answered 200, also
\* when two of them are in progress together.
C28_RedeemedOnce ==
    \A id \in DOMAIN verificationCodes : Cardinality(Redeemed(id)) <= 1


\* the call c of checkDbReadiness ends in this step
Resolves(c) == checks[c].pc # "none" /\ checks'[c].pc = "none"

\* what a step of the monitor or a request may do
ReadinessStep ==
    /\ (ready' # ready \/ lastError' # lastError)
          => \E c \in CheckIds : Resolves(c)
    /\ (ready' /\ ~ready)
          => \E c \in CheckIds :
                /\ Resolves(c)
                /\ checks[c].pc = "tables"
                /\ database.up
                /\ AllTables \subseteq database.tables
    /\ \A c \in CheckIds :
          (Resolves(c) /\ checks'[c].returned = Some(FALSE)) => ~ready'
    /\ (resp'.route \in {"api", "import/status"} /\ \E j \in JobIds : ApiRequest(j))
          => /\ resp'.status = 503 <=> ~ready
             /\ resp'.route = "api" <=> ~ready
    /\ (resp'.route = "healthz" /\ Healthz) => resp'.status = 200

\* C29: ready is true exactly when lastError is null; it is false, with the
\* unchecked message, until a check has ended; it turns true only in the
\* step in which a check's table query finds the connection working and all
\* five tables, and every check that fails leaves it false; a request under
\* /api behind the gate is answered 503 exactly when ready is false and
\* reaches its handler exactly when it is true, and GET /healthz is
\* answered 200 either way.
C29_ReadinessGate ==
    /\ [](ready <=> lastError = None)
    /\ []((\A c \in CheckIds : checks[c].returned = None)
            => (~ready /\ lastError = Some(NOT_CHECKED)))
    /\ [][ReadinessStep]_vars

\* a request was refused with 503 for a missing table, and a later check
\* found the database ready
C29_Witness ==
    /\ resp.route = "api"
    /\ resp.status = 503
    /\ resp.details = Some("missing tables: agents, notifications")
    /\ ready
    /\ lastError = None

====
